---- MODULE Spec2Model ----
(***************************************************************************)
(* A model of the stream monitoring engine of stream-metadata-monitor      *)
(* (src/stream_metadata.py): the metadata worker (run_metadata_monitor),   *)
(* the normalizer (parse_title, process_metadata), the snapshot store      *)
(* (read_json, write_json, write_json_with_history,                        *)
(* update_connection_status), the audio properties tracker, the audio      *)
(* worker (run_ffmpeg_audio_monitor), the coordination loop of run() and   *)
(* shutdown (handle_signal, terminate_processes).                          *)
(*                                                                         *)
(* Conventions.  A Python dict is a function whose domain is its key set.  *)
(* Text that the code splits or strips character by character (titles) is  *)
(* a sequence of one-character strings.  Audio property values are         *)
(* sequences of words (<<"128", "Kbps">> is "128 Kbps", <<"128">> is the   *)
(* integer 128 or the text "128").  A line of decoder output is a record   *)
(* holding the substrings the code tests for (pats) and the payloads the   *)
(* code cuts out of it.                                                    *)
(***************************************************************************)
EXTENDS Integers, Sequences, FiniteSets, TLC

VARIABLES
    self,     \* the StreamMetadata object's fields
    file,     \* the snapshot file at json_path
    mw,       \* the metadata worker: position and locals of run_metadata_monitor
    aw,       \* the audio worker: position and locals of run_ffmpeg_audio_monitor
    co,       \* the coordination loop of run(): position and locals
    sh,       \* handle_signal / terminate_processes: position and locals
    procs,    \* the child processes behind metadata_process / ffmpeg_audio_process
    now,      \* the wall clock, in seconds
    trace     \* history variable: the lines read by the main loop and what each
              \* emitted (in the race specification: the histories the file held)

vars == <<self, file, mw, aw, co, sh, procs, now, trace>>

----------------------------------------------------------------------------
(* Bounds of the model *)

\* the clock stops advancing here
MaxTime == 2
\* lines the main loop reads in one session of the assembler specification
MaxLines == 6
\* events written in one session of the history specification
MaxEvents == 3
\* lines the worker reads in its main loop in the session specification
MaxSessionLines == 3
\* audio processes the audio worker starts in one run
MaxSpawns == 2

(* Program constants *)

\* history = history[-10:]
HistoryCap == 10
\* for _ in range(10)
DetectAttempts == 10

----------------------------------------------------------------------------
(* Python dicts *)

EmptyDict == [k \in {} |-> TRUE]
PyNone == [py_none |-> TRUE]

Get(d, k, dflt) == IF k \in DOMAIN d THEN d[k] ELSE dflt
Put(d, k, v) == [x \in (DOMAIN d) \cup {k} |-> IF x = k THEN v ELSE d[x]]
Update(d, e) == [x \in (DOMAIN d) \cup (DOMAIN e) |-> IF x \in DOMAIN e THEN e[x] ELSE d[x]]
Without(d, ks) == [x \in (DOMAIN d) \ ks |-> d[x]]

\* history[:n]
FirstN(s, n) == IF Len(s) <= n THEN s ELSE SubSeq(s, 1, n)

\* history[-n:]
LastN(s, n) == IF Len(s) <= n THEN s ELSE SubSeq(s, Len(s) - n + 1, Len(s))

----------------------------------------------------------------------------
(* Python str methods, on sequences of characters *)

Whitespace == {" "}

RECURSIVE LStripSet(_, _)
LStripSet(s, cs) ==
    IF s # <<>> /\ Head(s) \in cs THEN LStripSet(Tail(s), cs) ELSE s

RECURSIVE RStripSet(_, _)
RStripSet(s, cs) ==
    IF s # <<>> /\ s[Len(s)] \in cs THEN RStripSet(SubSeq(s, 1, Len(s) - 1), cs) ELSE s

\* s.strip(cs)
StripSet(s, cs) == LStripSet(RStripSet(s, cs), cs)

\* s.strip()
Strip(s) == StripSet(s, Whitespace)

\* s.find(sub) + 1: the first position where sub occurs in s, 0 when it does not
Find(s, sub) ==
    LET at == {i \in 1..(Len(s) - Len(sub) + 1) : SubSeq(s, i, i + Len(sub) - 1) = sub}
    IN  IF at = {} THEN 0 ELSE CHOOSE i \in at : \A j \in at : i <= j

\* ' - '
Separator == <<" ", "-", " ">>

ParseTitle(title) ==
    IF title = <<>> THEN [artist |-> <<>>, title |-> <<>>]
    ELSE LET cleaned == Strip(RStripSet(Strip(title), {"-"}))
             i == Find(cleaned, Separator)
         IN  IF i > 0
             THEN [artist |-> Strip(SubSeq(cleaned, 1, i - 1)),
                   title  |-> Strip(SubSeq(cleaned, i + 3, Len(cleaned)))]
             ELSE [artist |-> <<>>, title |-> cleaned]

----------------------------------------------------------------------------
(* The snapshot file.  state is "missing", "ok" (doc is what json.load      *)
(* returns), "empty" (truncated by open(path, 'w'), nothing flushed yet)    *)
(* or "torn" (new text written over the old text, not yet truncated).       *)

NoDoc == EmptyDict
MissingFile == [state |-> "missing", doc |-> NoDoc]
OkFile(d) == [state |-> "ok", doc |-> d]

\* the parts of the document a file holds
FileHistory(f) == Get(Get(f.doc, "metadata", EmptyDict), "history", <<>>)
FileCurrent(f) == Get(Get(f.doc, "metadata", EmptyDict), "current", PyNone)
FileStatus(f) == Get(Get(f.doc, "server", EmptyDict), "connection_status", "")

\* read_json: None when the file is missing or json.load raises
ReadJson(f) == IF f.state = "ok" THEN f.doc ELSE PyNone

\* x or {}
OrEmpty(x) == IF x = PyNone THEN EmptyDict ELSE x

\* write_json, as one step
WriteJson(f, data) == OkFile(data)

\* the keys write_json_with_history and process_metadata keep out of current
AudioKeys == {"codec", "sample_rate", "bitrate", "channels"}

\* "unknown", the initial value of codec, sample_rate, bitrate and channels
Unknown == <<"unknown">>

StreamUrl == "http://stream/mount"

\* the merge with an append test that also compares the type
MergeHistoryComparesType(data, metadata, slf) ==
    LET data1 == IF "metadata" \in DOMAIN data THEN data
                 ELSE Put(data, "metadata", EmptyDict)
        history == Get(data1["metadata"], "history", <<>>)
        history_metadata == [timestamp |-> metadata["timestamp"],
                             type      |-> metadata["type"],
                             title     |-> metadata["title"],
                             artist    |-> metadata["artist"]]
        appended == IF history = <<>>
                       \/ history[Len(history)]["title"] # history_metadata["title"]
                       \/ history[Len(history)]["artist"] # history_metadata["artist"]
                       \/ history[Len(history)]["type"] # history_metadata["type"]
                    THEN Append(history, history_metadata)
                    ELSE history
        kept == LastN(appended, HistoryCap)
        filtered_metadata == Without(metadata, AudioKeys)
        data2 == Put(data1, "metadata",
                     Put(Put(data1["metadata"], "history", kept),
                         "current", filtered_metadata))
        valid_audio == \A v \in {slf.codec, slf.sample_rate, slf.bitrate, slf.channels} :
                           v # <<>> /\ v # Unknown
        audio_properties ==
            IF slf.audio_info_locked /\ valid_audio
            THEN [codec |-> slf.codec, sample_rate |-> slf.sample_rate,
                  bitrate |-> slf.bitrate, channels |-> slf.channels]
            ELSE slf.audio_properties
        data3 == IF "stream" \in DOMAIN data2 THEN data2
                 ELSE Put(data2, "stream", [url |-> StreamUrl])
        data4 == IF audio_properties # EmptyDict
                 THEN Put(data3, "stream",
                          Put(data3["stream"], "audio_properties", audio_properties))
                 ELSE data3
    IN  [data |-> data4, audio_properties |-> audio_properties]

\* write_json_with_history between its read and its write: the document to
\* write, from the document read (data), the event and the object's fields
MergeHistory(data, metadata, slf) ==
    LET data1 == IF "metadata" \in DOMAIN data THEN data
                 ELSE Put(data, "metadata", EmptyDict)
        history == Get(data1["metadata"], "history", <<>>)
        history_metadata == [timestamp |-> metadata["timestamp"],
                             type      |-> metadata["type"],
                             title     |-> metadata["title"],
                             artist    |-> metadata["artist"]]
        appended == IF history = <<>>
                       \/ history[Len(history)]["title"] # history_metadata["title"]
                       \/ history[Len(history)]["artist"] # history_metadata["artist"]
                    THEN Append(history, history_metadata)
                    ELSE history
        kept == LastN(appended, HistoryCap)
        filtered_metadata == Without(metadata, AudioKeys)
        data2 == Put(data1, "metadata",
                     Put(Put(data1["metadata"], "history", kept),
                         "current", filtered_metadata))
        valid_audio == \A v \in {slf.codec, slf.sample_rate, slf.bitrate, slf.channels} :
                           v # <<>> /\ v # Unknown
        audio_properties ==
            IF slf.audio_info_locked /\ valid_audio
            THEN [codec |-> slf.codec, sample_rate |-> slf.sample_rate,
                  bitrate |-> slf.bitrate, channels |-> slf.channels]
            ELSE slf.audio_properties
        data3 == IF "stream" \in DOMAIN data2 THEN data2
                 ELSE Put(data2, "stream", [url |-> StreamUrl])
        data4 == IF audio_properties # EmptyDict
                 THEN Put(data3, "stream",
                          Put(data3["stream"], "audio_properties", audio_properties))
                 ELSE data3
    IN  [data |-> data4, audio_properties |-> audio_properties]

\* the calls that touch the file, as the caller queues them (ops): the
\* arguments, and for write_json_with_history the object as it is at the call
HistoryOp(metadata, slf) ==
    [op |-> "history", status |-> "", metadata |-> metadata, self |-> slf]
StatusOp(status) ==
    [op |-> "status", status |-> status, metadata |-> EmptyDict, self |-> EmptyDict]

\* write_json_with_history as one step (no other thread between read and write)
WriteJsonWithHistory(m, metadata) ==
    LET r == MergeHistory(OrEmpty(ReadJson(m.file)), metadata, m.self)
    IN  [m EXCEPT !.self.audio_properties = r.audio_properties,
                  !.file = WriteJson(m.file, r.data),
                  !.ops = Append(@, HistoryOp(metadata, m.self))]

\* update_connection_status between its load and its write
SetStatus(data, status) ==
    IF "server" \in DOMAIN data
    THEN Put(data, "server", Put(data["server"], "connection_status", status))
    ELSE Put(data, "server", [connection_status |-> status])

\* update_connection_status as one step; open() or json.load raising is caught
UpdateConnectionStatus(m, status) ==
    [m EXCEPT !.self.connection_status = status,
              !.file = IF m.file.state = "ok"
                       THEN OkFile(SetStatus(m.file.doc, status))
                       ELSE m.file,
              !.ops = Append(@, StatusOp(status))]

----------------------------------------------------------------------------
(* The same calls step by step, as another thread sees them.  A thread's io *)
(* holds the calls it still has to make (ops), where it is in the first of  *)
(* them (pc: "idle", "loaded" after the read, "opened" after the file has   *)
(* been overwritten and before it is complete), the document it is about   *)
(* to write (data) and the state of the file its last read found (seen).    *)
(* Writes are modelled at the grain of documents: a write that overlaps     *)
(* another thread's leaves the text of whichever completes last.            *)

NoIo == [ops |-> <<>>, pc |-> "idle", data |-> NoDoc, seen |-> ""]

\* open(json_path, 'w') has truncated the file; json.dump is not flushed yet
EmptyFile == [state |-> "empty", doc |-> NoDoc]

\* seek(0) and json.dump through an 'r+' handle, flushed, before truncate():
\* the new text lies over the old one, which shows after it where it was
\* longer (from "connecting" to "connected" the text gets shorter)
TornFile == [state |-> "torn", doc |-> NoDoc]
WriteOver(f, data) ==
    IF f.state = "ok" /\ f.doc # data THEN {TornFile, OkFile(data)} ELSE {OkFile(data)}

\* the results of the thread's next step on the file f
IoNext(io, f) ==
    LET head == Head(io.ops)
    IN  CASE io.pc = "idle" /\ head.op = "history" ->
                 {[io |-> [io EXCEPT !.pc = "loaded", !.seen = f.state,
                                     !.data = MergeHistory(OrEmpty(ReadJson(f)),
                                                  head.metadata, head.self).data],
                   file |-> f]}
          [] io.pc = "idle" /\ head.op = "status" ->
                 IF f.state = "ok"
                 THEN {[io |-> [io EXCEPT !.pc = "loaded", !.seen = f.state,
                                         !.data = SetStatus(f.doc, head.status)],
                        file |-> f]}
                 ELSE {[io |-> [io EXCEPT !.ops = Tail(@), !.seen = f.state], file |-> f]}
          [] io.pc = "loaded" /\ head.op = "history" ->
                 {[io |-> [io EXCEPT !.pc = "opened"], file |-> EmptyFile]}
          [] io.pc = "loaded" /\ head.op = "status" ->
                 {[io |-> [io EXCEPT !.pc = "opened"], file |-> g] : g \in WriteOver(f, io.data)}
          [] io.pc = "opened" ->
                 {[io |-> [io EXCEPT !.pc = "idle", !.ops = Tail(@), !.data = NoDoc],
                   file |-> OkFile(io.data)]}

----------------------------------------------------------------------------
(* The metadata normalizer *)

\* f"{artist}|{title}|{type}"
DedupKey(artist, title, type) == artist \o <<"|">> \o title \o <<"|", type>>

ENABLE_AUDIO_METRICS == TRUE

\* audio_metrics: never updated by this file's workers
AudioMetrics == [integrated_lufs |-> PyNone, short_term_lufs |-> PyNone,
                 true_peak_db |-> PyNone, loudness_range_lu |-> PyNone]

\* the test with "and not current_key" for "and current_key"
IsRepeatNegatedKey(slf, current_key) ==
    /\ slf.has_seen_first_metadata
    /\ current_key = DedupKey(slf.last_artist, slf.last_title, slf.last_type)
    /\ current_key = <<>>

\* the test applied to songs only: an ad is never taken for a repeat
IsRepeatSongsOnly(slf, current_key) ==
    /\ slf.has_seen_first_metadata
    /\ current_key = DedupKey(slf.last_artist, slf.last_title, slf.last_type)
    /\ current_key # <<>>
    /\ current_key[Len(current_key)] = "song"

\* hasattr(self, 'has_seen_first_metadata') and current_key == last_key and current_key
IsRepeat(slf, current_key) ==
    /\ slf.has_seen_first_metadata
    /\ current_key = DedupKey(slf.last_artist, slf.last_title, slf.last_type)
    /\ current_key # <<>>

\* process_metadata; m.emitted records the call
ProcessMetadata(m, metadata0) ==
    LET title_info == ParseTitle(Get(metadata0, "title", <<>>))
        current_artist == title_info.artist
        current_title == title_info.title
        current_type == IF Get(metadata0, "adw_ad", FALSE) = TRUE THEN "ad" ELSE "song"
        metadata == Put(Put(Put(metadata0, "artist", current_artist),
                            "title", current_title), "type", current_type)
        current_key == DedupKey(current_artist, current_title, current_type)
        called == [m EXCEPT !.emitted = Append(@, metadata)]
        seen == [called EXCEPT !.self.has_seen_first_metadata = TRUE]
        remembered == [seen EXCEPT !.self.last_metadata = metadata,
                                   !.self.last_artist = current_artist,
                                   !.self.last_title = current_title,
                                   !.self.last_type = current_type]
        filtered_metadata == Without(metadata, AudioKeys)
        complete0 == Update([timestamp |-> m.t, type |-> current_type,
                             title |-> current_title, artist |-> current_artist],
                            filtered_metadata)
        complete_metadata == IF ENABLE_AUDIO_METRICS
                             THEN Update(complete0, AudioMetrics) ELSE complete0
    IN  IF IsRepeat(m.self, current_key)
        THEN called
        ELSE WriteJsonWithHistory(remembered, complete_metadata)

----------------------------------------------------------------------------
(* The audio properties tracker *)

\* the words int() accepts, with their values
Numerals == {"1", "2", "64", "128", "2000", "44100"}
IntOf(w) == CASE w = "1" -> 1 [] w = "2" -> 2 [] w = "64" -> 64
              [] w = "128" -> 128 [] w = "2000" -> 2000 [] w = "44100" -> 44100

\* the codecs parse_ffmpeg_audio_stream_info does not take
RawCodecs == {<<"pcm_s16le">>, <<"pcm_f32le">>, <<"pcm_s24le">>, <<"pcm_s32le">>,
              <<"fltp">>, <<"s16p">>, <<"s32p">>}

\* part.replace('Hz', '').strip()
DropHz(part) == SelectSeq(part, LAMBDA w : w # "Hz")

\* the loop over parts: the first part with 'kb/s' whose first word is an integer
RECURSIVE FirstBitrate(_, _)
FirstBitrate(parts, dflt) ==
    IF parts = <<>> THEN dflt
    ELSE LET part == Head(parts)
         IN  IF (\E i \in 1..Len(part) : part[i] = "kb/s") /\ part[1] \in Numerals
             THEN <<part[1]>>
             ELSE FirstBitrate(Tail(parts), dflt)

\* parse_ffmpeg_audio_stream_info without the test of the codec
ParseFfmpegAudioStreamInfoTakesRaw(slf, line) ==
    IF "Stream #0:0" \in line.pats /\ "Audio:" \in line.pats /\ ~ slf.audio_info_locked
    THEN IF Len(line.fmt) >= 5
         THEN [slf EXCEPT !.codec = line.fmt[1],
                          !.sample_rate = DropHz(line.fmt[2]),
                          !.channels = line.fmt[3],
                          !.bitrate = FirstBitrate(line.fmt, slf.bitrate),
                          !.audio_info_ready = TRUE,
                          !.audio_info_locked = TRUE]
         ELSE slf
    ELSE slf

\* parse_ffmpeg_audio_stream_info; line.fmt is line.split('Audio:')[-1].split(','),
\* each part stripped, lower-cased and cut into words
ParseFfmpegAudioStreamInfo(slf, line) ==
    IF "Stream #0:0" \in line.pats /\ "Audio:" \in line.pats /\ ~ slf.audio_info_locked
    THEN IF Len(line.fmt) >= 5 /\ line.fmt[1] \notin RawCodecs
         THEN [slf EXCEPT !.codec = line.fmt[1],
                          !.sample_rate = DropHz(line.fmt[2]),
                          !.channels = line.fmt[3],
                          !.bitrate = FirstBitrate(line.fmt, slf.bitrate),
                          !.audio_info_ready = TRUE,
                          !.audio_info_locked = TRUE]
         ELSE slf
    ELSE slf

\* bitrate = int(value); "unknown" above 1000, f"{bitrate} Kbps" otherwise
IcyBitrate(value) == IF IntOf(value) > 1000 THEN Unknown ELSE <<value, "Kbps">>

\* the loop over the key=value pairs of an icy-audio-info line (pairs without
\* '=' are skipped by the code and left out of line.icy); ok is FALSE once
\* int() has raised, which ends parse_icy_audio_info
RECURSIVE IcyPairs(_, _)
IcyPairs(r, pairs) ==
    IF pairs = <<>> \/ ~ r.ok THEN r
    ELSE LET key == Head(pairs)[1]
             value == Head(pairs)[2]
             slf == r.slf
             ready == [slf EXCEPT !.audio_info_ready = TRUE]
         IN  IF key = "ice-samplerate" /\ slf.sample_rate = Unknown
             THEN IcyPairs([r EXCEPT !.slf = [ready EXCEPT !.sample_rate = <<value>>]],
                           Tail(pairs))
             ELSE IF key = "ice-bitrate" /\ slf.bitrate = Unknown
             THEN IF value \in Numerals
                  THEN IcyPairs([r EXCEPT !.slf = [ready EXCEPT !.bitrate = IcyBitrate(value)]],
                                Tail(pairs))
                  ELSE [r EXCEPT !.ok = FALSE]
             ELSE IF key = "ice-channels" /\ slf.channels = Unknown
             THEN IF value \in Numerals
                  THEN IcyPairs([r EXCEPT !.slf = [ready EXCEPT !.channels =
                                    IF IntOf(value) = 2 THEN <<"stereo">> ELSE <<"mono">>]],
                                Tail(pairs))
                  ELSE [r EXCEPT !.ok = FALSE]
             ELSE IcyPairs([r EXCEPT !.slf = ready], Tail(pairs))

\* parse_icy_audio_info with the icy-br branch taking the bitrate whatever
\* the field holds
ParseIcyAudioInfoOverwrites(slf, line) ==
    LET r == IF "icy-audio-info" \in line.pats
             THEN IcyPairs([slf |-> slf, ok |-> TRUE], line.icy)
             ELSE [slf |-> slf, ok |-> TRUE]
    IN  IF r.ok /\ "icy-br" \in line.pats /\ line.val \in Numerals
        THEN [r.slf EXCEPT !.bitrate = IcyBitrate(line.val), !.audio_info_ready = TRUE]
        ELSE r.slf

\* parse_icy_audio_info; line.val is line.split(':', 1)[1].strip() of an icy-br line
ParseIcyAudioInfo(slf, line) ==
    LET r == IF "icy-audio-info" \in line.pats
             THEN IcyPairs([slf |-> slf, ok |-> TRUE], line.icy)
             ELSE [slf |-> slf, ok |-> TRUE]
    IN  IF r.ok /\ "icy-br" \in line.pats /\ r.slf.bitrate = Unknown
              /\ line.val \in Numerals
        THEN [r.slf EXCEPT !.bitrate = IcyBitrate(line.val), !.audio_info_ready = TRUE]
        ELSE r.slf

----------------------------------------------------------------------------
(* Lines of decoder output.  pats: the substrings the code looks for that   *)
(* the line contains (as the code compares them: lower-cased where the code *)
(* lower-cases the line).  fmt: the comma-separated parts after 'Audio:'.   *)
(* icy: the key=value pairs of an icy-audio-info line.  val: the text after *)
(* the colon of a "Metadata update for <field>: <value>" or icy-br line.    *)
(* ctx: whether val base64-decodes to JSON.  title: the characters after    *)
(* the title marker.  Lines are in the decoder's own letter case.           *)

NoLine == [pats |-> {}, fmt |-> <<>>, icy |-> <<>>, val |-> "", ctx |-> FALSE,
           title |-> <<>>]

\* ad_fields, in the order the loop tries them
ad_fields == <<"adw_ad", "adId", "durationMilliseconds", "insertionType", "adswizzContext">>

\* f'metadata update for {field.lower()}:'
FieldPattern(field) ==
    CASE field = "adw_ad" -> "metadata update for adw_ad:"
      [] field = "adId" -> "metadata update for adid:"
      [] field = "durationMilliseconds" -> "metadata update for durationmilliseconds:"
      [] field = "insertionType" -> "metadata update for insertiontype:"
      [] field = "adswizzContext" -> "metadata update for adswizzcontext:"

\* str.lower() on the characters and words of the model
LowerChar(c) ==
    CASE c = "A" -> "a" [] c = "B" -> "b" [] c = "C" -> "c" [] c = "D" -> "d"
      [] c = "E" -> "e" [] c = "F" -> "f" [] c = "G" -> "g" [] c = "H" -> "h"
      [] c = "I" -> "i" [] c = "J" -> "j" [] c = "K" -> "k" [] c = "L" -> "l"
      [] c = "M" -> "m" [] c = "N" -> "n" [] c = "O" -> "o" [] c = "P" -> "p"
      [] c = "Q" -> "q" [] c = "R" -> "r" [] c = "S" -> "s" [] c = "T" -> "t"
      [] c = "U" -> "u" [] c = "V" -> "v" [] c = "W" -> "w" [] c = "X" -> "x"
      [] c = "Y" -> "y" [] c = "Z" -> "z"
      [] OTHER -> c
Lower(s) == [i \in 1..Len(s) |-> LowerChar(s[i])]
LowerWord(w) == CASE w = "True" -> "true" [] w = "TRUE" -> "true"
                  [] w = "False" -> "false" [] OTHER -> w

\* the patterns that send a line to the song branch of the main loop
TitlePatterns == {"streamtitle", "icy-metadata", "title=", "artist=",
                  "metadata update for streamtitle"}

\* the title the song branch cuts out of the line; <<>> for None
ExtractTitle(line) ==
    IF "streamtitle" \in line.pats
    THEN IF "metadata update for streamtitle:" \in line.pats
            \/ "streamtitle     :" \in line.pats
            \/ "streamtitle=" \in line.pats
         THEN Strip(line.title)
         ELSE <<>>
    ELSE IF "title=" \in line.pats THEN Strip(line.title) ELSE <<>>

\* title.strip(' -').strip('"\'')
CleanTitle(title) == StripSet(StripSet(title, {" ", "-"}), {"\"", "'"})

\* ['none', 'null', '']
TitleSentinels == {<<"n", "o", "n", "e">>, <<"n", "u", "l", "l">>, <<>>}

----------------------------------------------------------------------------
(* The main loop of run_metadata_monitor, one line at a time.  m holds the  *)
(* object (self), the file, the loop's locals in_ad and ad_metadata, the    *)
(* clock reading t and emitted, the metadata passed to process_metadata.    *)

\* the ad field branch with a failed decoding of adswizzContext ending the ad
\* and dropping what was collected
AdFieldBranchAbandonsOnError(m, line) ==
    LET hit == {i \in 1..Len(ad_fields) : FieldPattern(ad_fields[i]) \in line.pats}
    IN  IF hit = {} THEN m
        ELSE LET field == ad_fields[CHOOSE i \in hit : \A j \in hit : i <= j]
                 set == [m EXCEPT !.ad_metadata = Put(@, field, line.val)]
                 upd == UpdateConnectionStatus(set, "connected")
             IN  IF field = "adswizzContext"
                 THEN IF line.ctx
                      THEN [upd EXCEPT !.ad_metadata = Put(@, "adswizzContext_json", "pretty")]
                      ELSE [upd EXCEPT !.ad_metadata = EmptyDict, !.in_ad = FALSE]
                 ELSE upd

\* the ad field branch: the first field of ad_fields whose pattern is in the line
AdFieldBranch(m, line) ==
    LET hit == {i \in 1..Len(ad_fields) : FieldPattern(ad_fields[i]) \in line.pats}
    IN  IF hit = {} THEN m
        ELSE LET field == ad_fields[CHOOSE i \in hit : \A j \in hit : i <= j]
                 set == [m EXCEPT !.ad_metadata = Put(@, field, line.val)]
                 upd == UpdateConnectionStatus(set, "connected")
             IN  IF field = "adswizzContext"
                 THEN [upd EXCEPT !.ad_metadata = Put(@, "adswizzContext_json",
                                    IF line.ctx THEN "pretty" ELSE "[decode error]")]
                 ELSE upd

\* the song branch
SongBranch(m, line) ==
    LET title == CleanTitle(ExtractTitle(line))
    IN  IF ExtractTitle(line) # <<>> /\ title # <<>> /\ Lower(title) \notin TitleSentinels
        THEN UpdateConnectionStatus(
                 ProcessMetadata(m, [title |-> title, type |-> "song",
                                     codec |-> m.self.codec,
                                     sample_rate |-> m.self.sample_rate,
                                     bitrate |-> m.self.bitrate,
                                     channels |-> m.self.channels]),
                 "connected")
        ELSE m

\* the adw_ad branch that clears the accumulator before looking at it
AdMarkerBranchClearsFirst(m, line) ==
    IF LowerWord(line.val) = "true"
    THEN UpdateConnectionStatus(
             [m EXCEPT !.in_ad = TRUE, !.ad_metadata = Put(@, "adw_ad", TRUE)],
             "connected")
    ELSE LET cleared == [m EXCEPT !.ad_metadata = EmptyDict]
             ended == IF cleared.in_ad /\ cleared.ad_metadata # EmptyDict
                      THEN ProcessMetadata(cleared, cleared.ad_metadata)
                      ELSE cleared
         IN  [ended EXCEPT !.ad_metadata = EmptyDict, !.in_ad = FALSE]

\* the adw_ad branch
AdMarkerBranch(m, line) ==
    IF LowerWord(line.val) = "true"
    THEN UpdateConnectionStatus(
             [m EXCEPT !.in_ad = TRUE, !.ad_metadata = Put(@, "adw_ad", TRUE)],
             "connected")
    ELSE LET ended == IF m.in_ad /\ m.ad_metadata # EmptyDict
                      THEN ProcessMetadata(m, m.ad_metadata)
                      ELSE m
         IN  [ended EXCEPT !.ad_metadata = EmptyDict, !.in_ad = FALSE]

\* the body of the while loop with a song branch that does not test in_ad
MainLoopBodySongsInAd(m, line) ==
    LET m1 == IF line.pats \cap {"Audio:", "Stream #0:0", "Stream #0:1"} # {}
              THEN UpdateConnectionStatus(
                       [m EXCEPT !.self = ParseFfmpegAudioStreamInfo(m.self, line)],
                       "connected")
              ELSE m
    IN  IF line.pats \cap {"icy-audio-info", "icy-br"} # {}
        THEN UpdateConnectionStatus(
                 [m1 EXCEPT !.self = ParseIcyAudioInfo(m1.self, line)], "connected")
        ELSE IF "metadata update for adw_ad:" \in line.pats
        THEN AdMarkerBranch(m1, line)
        ELSE LET m2 == IF m1.in_ad THEN AdFieldBranch(m1, line) ELSE m1
             IN  IF line.pats \cap TitlePatterns # {}
                 THEN SongBranch(m2, line)
                 ELSE m2

\* the body of the while loop for one non-empty line
MainLoopBody(m, line) ==
    LET m1 == IF line.pats \cap {"Audio:", "Stream #0:0", "Stream #0:1"} # {}
              THEN UpdateConnectionStatus(
                       [m EXCEPT !.self = ParseFfmpegAudioStreamInfo(m.self, line)],
                       "connected")
              ELSE m
    IN  IF line.pats \cap {"icy-audio-info", "icy-br"} # {}
        THEN UpdateConnectionStatus(
                 [m1 EXCEPT !.self = ParseIcyAudioInfo(m1.self, line)], "connected")
        ELSE IF "metadata update for adw_ad:" \in line.pats
        THEN AdMarkerBranch(m1, line)
        ELSE LET m2 == IF m1.in_ad THEN AdFieldBranch(m1, line) ELSE m1
             IN  IF ~ m2.in_ad /\ line.pats \cap TitlePatterns # {}
                 THEN SongBranch(m2, line)
                 ELSE m2

----------------------------------------------------------------------------
(* The state after __init__ and the first part of run() *)

\* the fields __init__ sets
InitSelf ==
    [connection_status |-> "connecting",
     last_metadata |-> EmptyDict, last_title |-> <<>>, last_artist |-> <<>>,
     last_type |-> "", has_seen_first_metadata |-> FALSE,
     codec |-> Unknown, sample_rate |-> Unknown, bitrate |-> Unknown,
     channels |-> Unknown, audio_properties |-> EmptyDict,
     audio_levels_displayed |-> FALSE, audio_info_ready |-> FALSE,
     audio_info_locked |-> FALSE, stop_flag |-> FALSE]

\* run() up to write_json(data), starting the history anew
RunInitFreshHistory(slf, found) ==
    LET existing_data == OrEmpty(ReadJson(found))
        stream_section == Get(existing_data, "stream", EmptyDict)
        slf1 == IF "audio_properties" \in DOMAIN stream_section
                THEN [slf EXCEPT !.audio_properties = stream_section["audio_properties"]]
                ELSE slf
        data == [server   |-> [connection_status |-> slf1.connection_status],
                 stream   |-> [url |-> StreamUrl,
                               audio_properties |-> slf1.audio_properties],
                 metadata |-> [current |-> PyNone, history |-> <<>>]]
    IN  [self |-> slf1, file |-> WriteJson(found, data)]

\* run() up to write_json(data): the object and the file it leaves, from the
\* file found (the flags, paths and start time of the document are left out)
RunInit(slf, found) ==
    LET existing_data == OrEmpty(ReadJson(found))
        existing_history == Get(Get(existing_data, "metadata", EmptyDict), "history", <<>>)
        stream_section == Get(existing_data, "stream", EmptyDict)
        slf1 == IF "audio_properties" \in DOMAIN stream_section
                THEN [slf EXCEPT !.audio_properties = stream_section["audio_properties"]]
                ELSE slf
        data == [server   |-> [connection_status |-> slf1.connection_status],
                 stream   |-> [url |-> StreamUrl,
                               audio_properties |-> slf1.audio_properties],
                 metadata |-> [current |-> PyNone, history |-> existing_history]]
    IN  [self |-> slf1, file |-> WriteJson(found, data)]

\* a child process: state is "none" (no handle), "running" or "exited"; out is
\* what an exited process left on its output, rc its return code
\* a Popen handle and the process behind it: state is "none" (the handle is
\* None), "running", "exited" or "killed"; gen tells one process from the
\* next one kept in the same attribute; term: it has been sent SIGTERM
NoProc == [state |-> "none", out |-> "", rc |-> 0, gen |-> 0, term |-> FALSE]

\* pc: "start", "sleep" (time.sleep(1) after Popen), "detect" (the initial
\* window), "loop" (the main loop), "done" (returned); exit: the return taken;
\* attempts: iterations of the window so far; drained: stdout.read() has
\* consumed the output; spawns: Popen calls made
InitMw == [pc |-> "start", exit |-> "", attempts |-> 0, drained |-> FALSE, spawns |-> 0,
           in_ad |-> FALSE, ad_metadata |-> EmptyDict, line |-> NoLine, io |-> NoIo]
\* the audio worker: pc is "start", "monitor" (its while loop) or "done"
InitAw == [pc |-> "start", spawns |-> 0]
InitCo == [pc |-> "idle", io |-> NoIo]
\* handle_signal: pc is "idle" (not called), "join", "joining" (inside
\* thread.join), "terminate", "wait" (inside proc.wait) or "done" (returned);
\* i, p: the indexes of the two for loops; list: the handles of
\* terminate_processes' list (gen, 0 for None); joins, sent, killed: what the
\* joins returned on and which handles got terminate() and kill()
InitSh == [pc |-> "idle", i |-> 1, joins |-> <<>>, list |-> <<>>, p |-> 1,
           sent |-> {}, killed |-> {}]
InitProcs == [meta |-> NoProc, audio |-> NoProc]

\* the snapshot run() writes when it finds no file
FreshRun == RunInit(InitSelf, MissingFile)

----------------------------------------------------------------------------
(* Steps of the metadata worker *)

\* the main loop's view of the state, and the state it leaves
Machine == [self |-> self, file |-> file, in_ad |-> mw.in_ad,
            ad_metadata |-> mw.ad_metadata, emitted |-> <<>>, t |-> now,
            ops |-> <<>>]

\* one iteration of the while loop of run_metadata_monitor on a non-empty line
LoopRead(line) ==
    /\ mw.pc = "loop"
    /\ ~ self.stop_flag
    /\ procs.meta.state = "running"
    /\ LET m == MainLoopBody(Machine, line)
       IN  /\ self' = m.self
           /\ file' = m.file
           /\ mw' = [mw EXCEPT !.in_ad = m.in_ad, !.ad_metadata = m.ad_metadata,
                               !.line = line]
    /\ UNCHANGED <<aw, co, sh, procs>>

\* the loop's end handled as the except clause handles an error
LoopExitMarksFailed ==
    /\ mw.pc = "loop"
    /\ self.stop_flag \/ procs.meta.state # "running"
    /\ self' = [UpdateConnectionStatus(Machine, "failed").self EXCEPT !.stop_flag = TRUE]
    /\ file' = UpdateConnectionStatus(Machine, "failed").file
    /\ mw' = [mw EXCEPT !.pc = "done", !.exit = "loop"]
    /\ UNCHANGED <<aw, co, sh, procs, now, trace>>

\* the while condition fails: the stop flag is set or the process has exited
LoopExit ==
    /\ mw.pc = "loop"
    /\ self.stop_flag \/ procs.meta.state # "running"
    /\ mw' = [mw EXCEPT !.pc = "done", !.exit = "loop"]
    /\ UNCHANGED <<self, file, aw, co, sh, procs, now, trace>>

\* the patterns of error_output that mean a stream or network error
NetworkErrors == {"Failed to resolve hostname", "Error opening input", "404 Not Found",
                  "Input/output error", "could not find codec parameters"}

\* what an exiting decoder can leave on its output
ExitOutputs == {"Failed to resolve hostname", "Conversion failed!", ""}

\* the patterns of the initial window, which are tested on line.lower()
DetectPatterns == {"streamtitle", "icy-metadata", "title=", "artist=",
                   "metadata update for streamtitle", "icy-audio-info",
                   "audio:", "stream #0:0"}
LowerPattern(p) == CASE p = "Audio:" -> "audio:"
                     [] p = "Stream #0:0" -> "stream #0:0"
                     [] OTHER -> p
DetectEvidence(line) == {LowerPattern(p) : p \in line.pats} \cap DetectPatterns # {}

\* with open(json_path, 'r+'): json.load, set connection_status, dump, truncate,
\* as run_metadata_monitor does it in place; raised when open, json.load or
\* data['server'] raises
DirectStatusWrite(f, status) ==
    IF f.state = "ok" /\ "server" \in DOMAIN f.doc
    THEN [file |-> OkFile(SetStatus(f.doc, status)), raised |-> FALSE]
    ELSE [file |-> f, raised |-> TRUE]

\* the except clause of run_metadata_monitor
MonitorError(m) ==
    [UpdateConnectionStatus(m, "failed") EXCEPT !.self.stop_flag = TRUE]

\* subprocess.Popen(cmd, ...) succeeds
MetaSpawn ==
    /\ mw.pc = "start"
    /\ procs' = [procs EXCEPT !.meta = [NoProc EXCEPT !.state = "running", !.gen = 1]]
    /\ mw' = [mw EXCEPT !.pc = "sleep", !.spawns = @ + 1]
    /\ UNCHANGED <<self, file, aw, co, sh, now, trace>>

\* subprocess.Popen raises (no ffmpeg): the except clause
MetaSpawnFails ==
    /\ mw.pc = "start"
    /\ self' = MonitorError(Machine).self
    /\ file' = MonitorError(Machine).file
    /\ mw' = [mw EXCEPT !.pc = "done", !.exit = "error"]
    /\ UNCHANGED <<aw, co, sh, procs, now, trace>>

\* the decoder exits on its own
MetaExits ==
    \E out \in ExitOutputs, rc \in {0, 1} :
        /\ procs.meta.state = "running"
        /\ procs' = [procs EXCEPT !.meta = [@ EXCEPT !.state = "exited", !.out = out,
                                                      !.rc = rc]]
        /\ UNCHANGED <<self, file, mw, aw, co, sh, now, trace>>

\* the two tests of the probe that end in "failed" and return
ProbeFailedByCodeOnly(proc) == proc.rc # 0
ProbeFailed(proc) == proc.out \in NetworkErrors \/ proc.rc # 0

\* after time.sleep(1): the early-failure probe
Probe ==
    /\ mw.pc = "sleep"
    /\ IF procs.meta.state = "exited"
       THEN IF ProbeFailed(procs.meta)
            THEN LET w == DirectStatusWrite(file, "failed")
                     err == MonitorError([Machine EXCEPT !.file = w.file])
                 IN  IF w.raised
                     THEN /\ self' = err.self
                          /\ file' = err.file
                          /\ mw' = [mw EXCEPT !.pc = "done", !.exit = "error",
                                              !.drained = TRUE]
                     ELSE /\ self' = self
                          /\ file' = w.file
                          /\ mw' = [mw EXCEPT !.pc = "done", !.exit = "probe",
                                              !.drained = TRUE]
            ELSE /\ mw' = [mw EXCEPT !.pc = "detect", !.drained = TRUE]
                 /\ UNCHANGED <<self, file>>
       ELSE /\ mw' = [mw EXCEPT !.pc = "detect"]
            /\ UNCHANGED <<self, file>>
    /\ UNCHANGED <<aw, co, sh, procs, now, trace>>

\* one iteration of the initial window that also gives the evidence line to
\* the handlers of the main loop
DetectReadHandlesLine(line) ==
    /\ mw.pc = "detect"
    /\ mw.attempts < DetectAttempts
    /\ mw.drained => line = NoLine
    /\ IF line # NoLine /\ DetectEvidence(line)
       THEN LET m == MainLoopBody([Machine EXCEPT
                                      !.file = DirectStatusWrite(file, "connected").file],
                                  line)
            IN  /\ self' = m.self
                /\ file' = m.file
                /\ mw' = [mw EXCEPT !.pc = "loop", !.line = line, !.in_ad = m.in_ad,
                                    !.ad_metadata = m.ad_metadata]
       ELSE /\ mw' = [mw EXCEPT !.attempts = @ + 1, !.line = line]
            /\ UNCHANGED <<self, file>>
    /\ UNCHANGED <<aw, co, sh, procs, now, trace>>

\* one iteration of the initial window; the line is NoLine for an empty read
\* (a blank line, or end of file), which is all a drained output gives
DetectRead(line) ==
    /\ mw.pc = "detect"
    /\ mw.attempts < DetectAttempts
    /\ mw.drained => line = NoLine
    /\ IF line # NoLine /\ DetectEvidence(line)
       THEN LET w == DirectStatusWrite(file, "connected")
                err == MonitorError([Machine EXCEPT !.file = w.file])
            IN  IF w.raised
                THEN /\ self' = err.self
                     /\ file' = err.file
                     /\ mw' = [mw EXCEPT !.pc = "done", !.exit = "error", !.line = line]
                ELSE /\ self' = self
                     /\ file' = w.file
                     /\ mw' = [mw EXCEPT !.pc = "loop", !.line = line]
       ELSE /\ mw' = [mw EXCEPT !.attempts = @ + 1, !.line = line]
            /\ UNCHANGED <<self, file>>
    /\ UNCHANGED <<aw, co, sh, procs, now, trace>>

\* the window ended with metadata_detected False, and the worker starts over
DetectFailRetries ==
    /\ mw.pc = "detect"
    /\ mw.attempts = DetectAttempts
    /\ mw' = [mw EXCEPT !.pc = "start", !.attempts = 0]
    /\ UNCHANGED <<self, file, aw, co, sh, procs, now, trace>>

\* the window ended with metadata_detected False
DetectFail ==
    /\ mw.pc = "detect"
    /\ mw.attempts = DetectAttempts
    /\ LET w == DirectStatusWrite(file, "failed")
           err == MonitorError([Machine EXCEPT !.file = w.file])
       IN  IF w.raised
           THEN /\ self' = err.self
                /\ file' = err.file
                /\ mw' = [mw EXCEPT !.pc = "done", !.exit = "error"]
           ELSE /\ self' = self
                /\ file' = w.file
                /\ mw' = [mw EXCEPT !.pc = "done", !.exit = "window"]
    /\ UNCHANGED <<aw, co, sh, procs, now, trace>>

\* one iteration of the while loop as other threads see it: the fields of
\* the object change at once, the calls on the file are still to be made
LoopReadQueued(line) ==
    /\ mw.pc = "loop"
    /\ ~ self.stop_flag
    /\ procs.meta.state = "running"
    /\ mw.io.ops = <<>>
    /\ LET m == MainLoopBody(Machine, line)
       IN  /\ self' = m.self
           /\ mw' = [mw EXCEPT !.in_ad = m.in_ad, !.ad_metadata = m.ad_metadata,
                               !.line = line, !.io.ops = m.ops]
    /\ UNCHANGED <<file, aw, co, sh, procs, now>>

\* an exception in the while loop outside the inner try (readline raising on
\* bytes it cannot decode, for one): the except clause of run_metadata_monitor
\* is entered and calls update_connection_status("failed")
LoopRaisesQueued ==
    /\ mw.pc = "loop"
    /\ mw.io.ops = <<>>
    /\ self' = [self EXCEPT !.connection_status = "failed"]
    /\ mw' = [mw EXCEPT !.pc = "except", !.io.ops = <<StatusOp("failed")>>]
    /\ UNCHANGED <<file, aw, co, sh, procs, now>>

\* the except clause after update_connection_status: self.stop_flag.set()
ExceptDone ==
    /\ mw.pc = "except"
    /\ mw.io.ops = <<>>
    /\ self' = [self EXCEPT !.stop_flag = TRUE]
    /\ mw' = [mw EXCEPT !.pc = "done", !.exit = "error"]
    /\ UNCHANGED <<file, aw, co, sh, procs, now, trace>>

\* the worker's next step on the file
WorkerIo ==
    /\ mw.io.ops # <<>>
    /\ \E r \in IoNext(mw.io, file) :
           /\ mw' = [mw EXCEPT !.io = r.io]
           /\ file' = r.file
    /\ UNCHANGED <<self, aw, co, sh, procs, now>>

----------------------------------------------------------------------------
(* Steps of the coordination loop of run().  pc is "idle" (the while test   *)
(* and its sleep), "wait" (the for loop of 50 polls), "decide" (the test of *)
(* last_metadata after it), "write" (inside write_json_with_history),       *)
(* "finally" (the loop has been left) or "done".                            *)

\* if self.audio_info_ready and not self.audio_levels_displayed
CoCheck ==
    /\ co.pc = "idle"
    /\ ~ self.stop_flag
    /\ self.audio_info_ready /\ ~ self.audio_levels_displayed
    /\ co' = [co EXCEPT !.pc = "wait"]
    /\ UNCHANGED <<self, file, mw, aw, sh, procs, now, trace>>

\* the for loop ends: last_metadata was seen, or the 50 polls are over
CoWait ==
    /\ co.pc = "wait"
    /\ co' = [co EXCEPT !.pc = "decide"]
    /\ UNCHANGED <<self, file, mw, aw, sh, procs, now, trace>>

\* the event run() writes when no metadata has arrived
MinimalMetadata ==
    [timestamp |-> now, type |-> "unknown", title |-> <<>>, artist |-> <<>>,
     codec |-> self.codec, sample_rate |-> self.sample_rate,
     bitrate |-> self.bitrate, channels |-> self.channels]

\* if not self.last_metadata: ... ; the call of write_json_with_history starts
CoDecide ==
    /\ co.pc = "decide"
    /\ IF self.last_metadata = EmptyDict
       THEN /\ self' = [self EXCEPT
                           !.last_metadata = MinimalMetadata,
                           !.audio_properties =
                               MergeHistory(EmptyDict, MinimalMetadata, self).audio_properties]
            /\ co' = [co EXCEPT !.pc = "write",
                                !.io.ops = <<HistoryOp(MinimalMetadata, self)>>]
       ELSE /\ self' = [self EXCEPT !.audio_levels_displayed = TRUE]
            /\ co' = [co EXCEPT !.pc = "idle"]
    /\ UNCHANGED <<file, mw, aw, sh, procs, now, trace>>

\* the coordination loop's next step on the file
CoIo ==
    /\ co.pc = "write"
    /\ co.io.ops # <<>>
    /\ \E r \in IoNext(co.io, file) :
           /\ co' = [co EXCEPT !.io = r.io]
           /\ file' = r.file
    /\ UNCHANGED <<self, mw, aw, sh, procs, now>>

\* self.audio_levels_displayed = True
CoMark ==
    /\ co.pc = "write"
    /\ co.io.ops = <<>>
    /\ self' = [self EXCEPT !.audio_levels_displayed = TRUE]
    /\ co' = [co EXCEPT !.pc = "idle"]
    /\ UNCHANGED <<file, mw, aw, sh, procs, now, trace>>

\* the while test finds the stop flag set
CoExit ==
    /\ co.pc = "idle"
    /\ self.stop_flag
    /\ co' = [co EXCEPT !.pc = "finally"]
    /\ UNCHANGED <<self, file, mw, aw, sh, procs, now, trace>>

\* KeyboardInterrupt during one of the loop's sleeps
CoInterrupt ==
    /\ co.pc \in {"idle", "wait"}
    /\ co' = [co EXCEPT !.pc = "finally"]
    /\ UNCHANGED <<self, file, mw, aw, sh, procs, now, trace>>

----------------------------------------------------------------------------
(* Steps of the audio worker (run_ffmpeg_audio_monitor) and of the children *)

\* the first Popen
AwSpawn ==
    /\ aw.pc = "start"
    /\ procs' = [procs EXCEPT !.audio = [NoProc EXCEPT !.state = "running", !.gen = 1]]
    /\ aw' = [aw EXCEPT !.pc = "monitor", !.spawns = 1]
    /\ UNCHANGED <<self, file, mw, co, sh, now, trace>>

\* Popen raises: the except clause sets the stop flag
AwSpawnFails ==
    /\ aw.pc = "start"
    /\ self' = [self EXCEPT !.stop_flag = TRUE]
    /\ aw' = [aw EXCEPT !.pc = "done"]
    /\ UNCHANGED <<file, mw, co, sh, procs, now, trace>>

\* the process died: the loop is left without another Popen
AwRespawnGivesUp ==
    /\ aw.pc = "monitor"
    /\ ~ self.stop_flag
    /\ procs.audio.state \in {"exited", "killed"}
    /\ aw' = [aw EXCEPT !.pc = "done"]
    /\ UNCHANGED <<self, file, mw, co, sh, procs, now, trace>>

\* the process died: Popen again
AwRespawn ==
    /\ aw.pc = "monitor"
    /\ ~ self.stop_flag
    /\ procs.audio.state \in {"exited", "killed"}
    /\ aw.spawns < MaxSpawns
    /\ procs' = [procs EXCEPT !.audio = [NoProc EXCEPT !.state = "running",
                                                       !.gen = aw.spawns + 1]]
    /\ aw' = [aw EXCEPT !.spawns = @ + 1]
    /\ UNCHANGED <<self, file, mw, co, sh, now, trace>>

\* the process died and Popen raises: the except clause sets the stop flag
AwRespawnFails ==
    /\ aw.pc = "monitor"
    /\ ~ self.stop_flag
    /\ procs.audio.state \in {"exited", "killed"}
    /\ self' = [self EXCEPT !.stop_flag = TRUE]
    /\ aw' = [aw EXCEPT !.pc = "done"]
    /\ UNCHANGED <<file, mw, co, sh, procs, now, trace>>

\* the while test finds the stop flag set
AwExit ==
    /\ aw.pc = "monitor"
    /\ self.stop_flag
    /\ aw' = [aw EXCEPT !.pc = "done"]
    /\ UNCHANGED <<self, file, mw, co, sh, procs, now, trace>>

\* the audio child exits on its own
AudioExits ==
    /\ procs.audio.state = "running"
    /\ procs' = [procs EXCEPT !.audio.state = "exited", !.audio.rc = 1]
    /\ UNCHANGED <<self, file, mw, aw, co, sh, now, trace>>

\* a child that was sent SIGTERM exits
TermExit ==
    \E name \in {"audio", "meta"} :
        /\ procs[name].state = "running"
        /\ procs[name].term
        /\ procs' = [procs EXCEPT ![name].state = "exited", ![name].rc = 255]
        /\ UNCHANGED <<self, file, mw, aw, co, sh, now, trace>>

----------------------------------------------------------------------------
(* handle_signal and terminate_processes, called from the finally clause of *)
(* run()                                                                    *)

\* self.threads, in the order run() appends them
Threads == <<"mw", "aw">>
IsAlive(thread) == IF thread = "mw" THEN mw.pc # "done" ELSE aw.pc # "done"

\* [self.ffmpeg_audio_process, self.metadata_process]
ProcList == <<"audio", "meta">>

\* self.stop_flag.set()
ShStop ==
    /\ co.pc = "finally"
    /\ sh.pc = "idle"
    /\ self' = [self EXCEPT !.stop_flag = TRUE]
    /\ sh' = [sh EXCEPT !.pc = "join", !.i = 1]
    /\ UNCHANGED <<file, mw, aw, co, procs, now, trace>>

\* if thread.is_alive(): thread.join(timeout=2.0) is entered
ShJoin ==
    /\ sh.pc = "join"
    /\ sh.i <= Len(Threads)
    /\ sh' = IF IsAlive(Threads[sh.i])
             THEN [sh EXCEPT !.pc = "joining"]
             ELSE [sh EXCEPT !.i = @ + 1, !.joins = Append(@, "dead")]
    /\ UNCHANGED <<self, file, mw, aw, co, procs, now, trace>>

\* thread.join() with no timeout: it returns once the thread has ended
ShJoinedNoTimeout ==
    /\ sh.pc = "joining"
    /\ ~ IsAlive(Threads[sh.i])
    /\ sh' = [sh EXCEPT !.pc = "join", !.i = @ + 1, !.joins = Append(@, "ended")]
    /\ UNCHANGED <<self, file, mw, aw, co, procs, now, trace>>

\* join(timeout=2.0) returns: the thread has ended, or two seconds are over
ShJoined ==
    /\ sh.pc = "joining"
    /\ sh' = [sh EXCEPT !.pc = "join", !.i = @ + 1,
                        !.joins = Append(@, IF IsAlive(Threads[sh.i])
                                            THEN "timeout" ELSE "ended")]
    /\ UNCHANGED <<self, file, mw, aw, co, procs, now, trace>>

\* terminate_processes builds its list
ShList ==
    /\ sh.pc = "join"
    /\ sh.i > Len(Threads)
    /\ sh' = [sh EXCEPT !.pc = "terminate", !.p = 1,
                        !.list = [k \in 1..Len(ProcList) |-> procs[ProcList[k]].gen]]
    /\ UNCHANGED <<self, file, mw, aw, co, procs, now, trace>>

\* the process a handle of the list stands for is still running
Running(k) ==
    /\ procs[ProcList[k]].gen = sh.list[k]
    /\ procs[ProcList[k]].state = "running"

\* if proc: proc.terminate()
ShTerminate ==
    /\ sh.pc = "terminate"
    /\ sh.p <= Len(ProcList)
    /\ IF sh.list[sh.p] = 0
       THEN /\ sh' = [sh EXCEPT !.p = @ + 1]
            /\ procs' = procs
       ELSE /\ sh' = [sh EXCEPT !.pc = "wait", !.sent = @ \cup {ProcList[sh.p]}]
            /\ procs' = IF Running(sh.p)
                        THEN [procs EXCEPT ![ProcList[sh.p]].term = TRUE]
                        ELSE procs
    /\ UNCHANGED <<self, file, mw, aw, co, now, trace>>

\* proc.wait(timeout=1.0) returns, or raises TimeoutExpired: proc.kill()
ShWait ==
    /\ sh.pc = "wait"
    /\ IF Running(sh.p)
       THEN /\ procs' = [procs EXCEPT ![ProcList[sh.p]].state = "killed"]
            /\ sh' = [sh EXCEPT !.pc = "terminate", !.p = @ + 1,
                                !.killed = @ \cup {ProcList[sh.p]}]
       ELSE /\ procs' = procs
            /\ sh' = [sh EXCEPT !.pc = "terminate", !.p = @ + 1]
    /\ UNCHANGED <<self, file, mw, aw, co, now, trace>>

\* handle_signal returns
ShReturn ==
    /\ sh.pc = "terminate"
    /\ sh.p > Len(ProcList)
    /\ sh' = [sh EXCEPT !.pc = "done"]
    /\ co' = [co EXCEPT !.pc = "done"]
    /\ UNCHANGED <<self, file, mw, aw, procs, now, trace>>

\* a second passes
Tick ==
    /\ now < MaxTime
    /\ now' = now + 1
    /\ UNCHANGED <<self, file, mw, aw, co, sh, procs, trace>>

----------------------------------------------------------------------------
(* Lines the specifications feed to the worker *)

\* "Metadata update for adw_ad: <val>"
AdMarker(val) == [NoLine EXCEPT !.pats = {"metadata update for adw_ad:"}, !.val = val]

\* "Metadata update for <field>: <val>"
AdField(field, val) == [NoLine EXCEPT !.pats = {FieldPattern(field)}, !.val = val]

\* "Metadata update for StreamTitle: <title>"
TitleUpdate(title) ==
    [NoLine EXCEPT !.pats = {"streamtitle", "metadata update for streamtitle",
                             "metadata update for streamtitle:"},
                   !.title = title]

T_A_B == <<"A", " ", "-", " ", "B">>
T_C == <<"C">>

AdLines == {AdMarker("true"), AdMarker("false"),
            AdField("adId", "ad1"), AdField("durationMilliseconds", "30000"),
            TitleUpdate(T_A_B), TitleUpdate(T_C)}

----------------------------------------------------------------------------
(* The assembler specification: the worker is in its main loop, connected,  *)
(* and reads up to MaxLines lines of AdLines, one second apart; trace keeps *)
(* each line with the assembler's state around it and what it emitted.      *)

Connected(f) == OkFile(SetStatus(f.doc, "connected"))

InitAd ==
    /\ self = FreshRun.self
    /\ file = Connected(FreshRun.file)
    /\ mw = [InitMw EXCEPT !.pc = "loop", !.spawns = 1]
    /\ aw = InitAw
    /\ co = InitCo
    /\ sh = InitSh
    /\ procs = [InitProcs EXCEPT !.meta.state = "running", !.meta.gen = 1]
    /\ now = 0
    /\ trace = <<>>

\* what trace keeps of one iteration of the main loop
TraceEntry(line) ==
    [line |-> line, in_ad |-> mw.in_ad, ad_metadata |-> mw.ad_metadata,
     emitted |-> MainLoopBody(Machine, line).emitted,
     t |-> now, before |-> file, after |-> MainLoopBody(Machine, line).file,
     ops |-> MainLoopBody(Machine, line).ops]

AdRead ==
    \E line \in AdLines :
        /\ Len(trace) < MaxLines
        /\ LoopRead(line)
        /\ now' = now + 1
        /\ trace' = Append(trace, TraceEntry(line))

NextAd == AdRead

SpecAd == InitAd /\ [][NextAd]_vars

----------------------------------------------------------------------------
(* The history specification: a previous run left a snapshot whose history  *)
(* is empty, one short of the cap or at the cap; run() keeps that history,  *)
(* and the worker, connected, reads up to MaxEvents lines of HistLines.     *)

\* the history a previous run left: n entries, no two neighbours alike, all
\* older than this session
PriorHistory(n) ==
    [i \in 1..n |->
        IF i % 2 = 0
        THEN [timestamp |-> i - n - 1, type |-> "song", title |-> <<"B">>, artist |-> <<"A">>]
        ELSE [timestamp |-> i - n - 1, type |-> "song", title |-> <<"C">>, artist |-> <<>>]]

PreviousFile(n) ==
    OkFile([server   |-> [connection_status |-> "connected"],
            stream   |-> [url |-> StreamUrl, audio_properties |-> EmptyDict],
            metadata |-> [current |-> PyNone, history |-> PriorHistory(n)]])

PreviousFiles == {MissingFile, PreviousFile(HistoryCap - 1), PreviousFile(HistoryCap)}

HistLines == {TitleUpdate(T_A_B), TitleUpdate(T_C), AdMarker("true"), AdMarker("false")}

InitHist ==
    \E found \in PreviousFiles :
        /\ self = RunInit(InitSelf, found).self
        /\ file = Connected(RunInit(InitSelf, found).file)
        /\ mw = [InitMw EXCEPT !.pc = "loop", !.spawns = 1]
        /\ aw = InitAw
        /\ co = InitCo
        /\ sh = InitSh
        /\ procs = [InitProcs EXCEPT !.meta.state = "running", !.meta.gen = 1]
        /\ now = 0
        /\ trace = <<>>

HistRead ==
    \E line \in HistLines :
        /\ Len(trace) < MaxEvents
        /\ LoopRead(line)
        /\ now' = now
        /\ trace' = Append(trace, TraceEntry(line))

NextHist == HistRead \/ Tick

SpecHist == InitHist /\ [][NextHist]_vars

----------------------------------------------------------------------------
(* The audio specification: the worker, connected, reads format lines,      *)
(* icy lines and titles in any order.                                       *)

\* "Stream #0:0: Audio: <part>, <part>, ..."
FormatLine(parts) == [NoLine EXCEPT !.pats = {"Stream #0:0", "Audio:"}, !.fmt = parts]

\* "icy-audio-info: <key>=<value>;..."
IcyAudioInfo(pairs) == [NoLine EXCEPT !.pats = {"icy-audio-info"}, !.icy = pairs]

\* "icy-br: <val>"
IcyBr(val) == [NoLine EXCEPT !.pats = {"icy-br"}, !.val = val]

AudioLines ==
    {FormatLine(<< <<"mp3">>, <<"44100", "Hz">>, <<"stereo">>, <<"fltp">>, <<"128", "kb/s">> >>),
     FormatLine(<< <<"aac">>, <<"22050", "Hz">>, <<"mono">>, <<"fltp">>, <<"64", "kb/s">> >>),
     FormatLine(<< <<"aac">>, <<"44100", "Hz">>, <<"stereo">>, <<"fltp">>, <<"s16">> >>),
     FormatLine(<< <<"pcm_s16le">>, <<"44100", "Hz">>, <<"stereo">>, <<"s16">>, <<"1411", "kb/s">> >>),
     FormatLine(<< <<"aac">>, <<"44100", "Hz">>, <<"stereo">>, <<"fltp">> >>),
     IcyAudioInfo(<< <<"ice-samplerate", "44100">>, <<"ice-bitrate", "128">>,
                     <<"ice-channels", "2">> >>),
     IcyBr("64"), IcyBr("2000"),
     TitleUpdate(T_A_B)}

AudioRead ==
    \E line \in AudioLines :
        /\ LoopRead(line)
        /\ UNCHANGED <<now, trace>>

NextAudio == AudioRead \/ Tick

SpecAudio == InitAd /\ [][NextAudio]_vars

----------------------------------------------------------------------------
(* The session specification: the metadata worker from the start of its     *)
(* thread: Popen, the probe after one second, the initial window and the    *)
(* main loop, with a decoder that may exit at any time.                     *)

\* a line of decoder log that carries none of the patterns
LogLine == [NoLine EXCEPT !.pats = {"[info]"}]

SessionLines == {TitleUpdate(T_A_B), AdMarker("true"), AdMarker("false"),
                 AdField("adId", "ad1"), LogLine,
                 FormatLine(<< <<"mp3">>, <<"44100", "Hz">>, <<"stereo">>, <<"fltp">>,
                               <<"128", "kb/s">> >>)}

InitSession ==
    /\ self = FreshRun.self
    /\ file = FreshRun.file
    /\ mw = InitMw
    /\ aw = InitAw
    /\ co = InitCo
    /\ sh = InitSh
    /\ procs = InitProcs
    /\ now = 0
    /\ trace = <<>>

SessionDetect == \E line \in SessionLines \cup {NoLine} : DetectRead(line)

SessionRead ==
    \E line \in SessionLines :
        /\ Len(trace) < MaxSessionLines
        /\ LoopRead(line)
        /\ trace' = Append(trace, TraceEntry(line))
        /\ now' = now

SessionCoIo == CoIo /\ UNCHANGED trace

NextSession ==
    \/ MetaSpawn
    \/ MetaSpawnFails
    \/ MetaExits
    \/ Probe
    \/ SessionDetect
    \/ DetectFail
    \/ SessionRead
    \/ LoopExit
    \/ CoCheck
    \/ CoWait
    \/ CoDecide
    \/ SessionCoIo
    \/ CoMark

SpecSession == InitSession /\ [][NextSession]_vars

----------------------------------------------------------------------------
(* The race specification: the worker, connected, in its main loop, and the *)
(* coordination loop, each making its calls on the file step by step; trace *)
(* keeps the successive histories the complete file has held.               *)

RaceLines == {TitleUpdate(T_A_B),
              FormatLine(<< <<"mp3">>, <<"44100", "Hz">>, <<"stereo">>, <<"fltp">>,
                            <<"128", "kb/s">> >>)}


\* the entries of trace: the history, the status and the current event of
\* the file
Held(f) == [history |-> FileHistory(f), status |-> FileStatus(f),
            current |-> FileCurrent(f), doc |-> f.doc]

InitRace ==
    /\ self = FreshRun.self
    /\ file = Connected(FreshRun.file)
    /\ mw = [InitMw EXCEPT !.pc = "loop", !.spawns = 1]
    /\ aw = InitAw
    /\ co = InitCo
    /\ sh = InitSh
    /\ procs = [InitProcs EXCEPT !.meta.state = "running", !.meta.gen = 1]
    /\ now = 0
    /\ trace = <<Held(file)>>

\* what a complete file holds, added to trace when it is not what trace
\* ends with
Logged(f) ==
    IF f.state = "ok" /\ Held(f) # trace[Len(trace)]
    THEN Append(trace, Held(f))
    ELSE trace

RaceRead == \E line \in RaceLines : LoopReadQueued(line) /\ trace' = trace
RaceRaises == LoopRaisesQueued /\ trace' = trace
RaceWorkerIo == WorkerIo /\ trace' = Logged(file')
RaceCoIo == CoIo /\ trace' = Logged(file')

NextRace ==
    \/ RaceRead
    \/ RaceRaises
    \/ ExceptDone
    \/ RaceWorkerIo
    \/ CoCheck
    \/ CoWait
    \/ CoDecide
    \/ RaceCoIo
    \/ CoMark

SpecRace == InitRace /\ [][NextRace]_vars

----------------------------------------------------------------------------
(* The shutdown specification: both workers from the start of their         *)
(* threads, children that may exit at any time or never, and the main       *)
(* thread, which leaves the coordination loop on the stop flag or on an     *)
(* interrupt and runs handle_signal.  Only the main thread is assumed to    *)
(* keep running: a worker may stay blocked in readline and a child may      *)
(* ignore SIGTERM for ever.                                                 *)

ShutdownLines == {NoLine, TitleUpdate(T_A_B)}

ShutdownDetect == \E line \in ShutdownLines : DetectRead(line)

Shutdown ==
    \/ ShStop
    \/ ShJoin
    \/ ShJoined
    \/ ShList
    \/ ShTerminate
    \/ ShWait
    \/ ShReturn

NextShutdown ==
    \/ MetaSpawn
    \/ MetaSpawnFails
    \/ MetaExits
    \/ Probe
    \/ ShutdownDetect
    \/ DetectFail
    \/ LoopExit
    \/ AwSpawn
    \/ AwSpawnFails
    \/ AwRespawn
    \/ AwExit
    \/ AudioExits
    \/ TermExit
    \/ CoExit
    \/ CoInterrupt
    \/ Shutdown

SpecShutdown == InitSession /\ [][NextShutdown]_vars /\ WF_vars(Shutdown)

----------------------------------------------------------------------------
(* The supervision specification: the audio worker and its child, with the  *)
(* metadata worker up to its probe and the main thread as the sources of    *)
(* the stop flag.  The audio worker's loop has no blocking call (poll,      *)
(* Popen, sleep(1)), so its steps are taken when they stay enabled.         *)

NextSupervise ==
    \/ AwSpawn
    \/ AwSpawnFails
    \/ AwRespawn
    \/ AwRespawnFails
    \/ AwExit
    \/ AudioExits
    \/ TermExit
    \/ MetaSpawn
    \/ MetaSpawnFails
    \/ MetaExits
    \/ Probe
    \/ CoExit
    \/ CoInterrupt
    \/ Shutdown

SpecSupervise ==
    /\ InitSession
    /\ [][NextSupervise]_vars
    /\ WF_vars(Shutdown)
    /\ WF_vars(AwRespawn \/ AwRespawnFails)
    /\ WF_vars(AwExit)

----------------------------------------------------------------------------
(* The fault specification: the metadata worker from the start of its       *)
(* thread, with a snapshot file that can be removed or damaged from outside *)
(* at any time.                                                             *)

\* lines the worker reads in its main loop in the fault specification
MaxFaultLines == 2

FaultLines == {TitleUpdate(T_A_B), AdMarker("true"),
               FormatLine(<< <<"mp3">>, <<"44100", "Hz">>, <<"stereo">>, <<"fltp">>,
                             <<"128", "kb/s">> >>)}

\* the file is removed, or overwritten with text that is not JSON
FileFault ==
    /\ file.state = "ok"
    /\ file' \in {MissingFile, TornFile}
    /\ UNCHANGED <<self, mw, aw, co, sh, procs, now, trace>>

FaultDetect == \E line \in FaultLines \cup {NoLine} : DetectRead(line)

FaultRead ==
    \E line \in FaultLines :
        /\ Len(trace) < MaxFaultLines
        /\ LoopRead(line)
        /\ trace' = Append(trace, TraceEntry(line))
        /\ now' = now

NextFault ==
    \/ MetaSpawn
    \/ MetaExits
    \/ Probe
    \/ FaultDetect
    \/ DetectFail
    \/ FaultRead
    \/ LoopExit
    \/ FileFault

SpecFault == InitSession /\ [][NextFault]_vars

----------------------------------------------------------------------------
(* The classification specification: the worker, connected, reads lines     *)
(* that carry the patterns of one category or of two.                       *)

\* lines the worker reads in the classification specification
MaxClassifyLines == 3

\* "Metadata update for StreamTitle: A - Audio: B"
T_A_AudioB == <<"A", " ", "-", " ", "A", "u", "d", "i", "o", ":", " ", "B">>

TitleWithAudio ==
    [NoLine EXCEPT !.pats = {"streamtitle", "metadata update for streamtitle",
                             "metadata update for streamtitle:", "Audio:"},
                   !.title = T_A_AudioB]

\* "Metadata update for insertionType: Audio: midroll"
AdFieldWithAudio ==
    [NoLine EXCEPT !.pats = {FieldPattern("insertionType"), "Audio:"},
                   !.val = "Audio: midroll"]

ClassifyLines ==
    {AdMarker("true"), AdMarker("false"), AdField("adId", "ad1"),
     FormatLine(<< <<"mp3">>, <<"44100", "Hz">>, <<"stereo">>, <<"fltp">>,
                   <<"128", "kb/s">> >>),
     IcyBr("64"), TitleUpdate(T_A_B), TitleWithAudio, AdFieldWithAudio}

ClassifyRead ==
    \E line \in ClassifyLines :
        /\ Len(trace) < MaxClassifyLines
        /\ LoopRead(line)
        /\ now' = now + 1
        /\ trace' = Append(trace, TraceEntry(line))

NextClassify == ClassifyRead

SpecClassify == InitAd /\ [][NextClassify]_vars

----------------------------------------------------------------------------
(* The title specification: the worker, connected, reads title lines of     *)
(* several shapes, inside and outside an ad.                                *)

\* lines the worker reads in the title specification
MaxTitleLines == 3

\* "StreamTitle=<text>"
StreamTitleEquals(title) ==
    [NoLine EXCEPT !.pats = {"streamtitle", "streamtitle=", "title="}, !.title = title]

\* A - none
T_A_None == <<"A", " ", "-", " ", "n", "o", "n", "e">>
\* None
T_None == <<"N", "o", "n", "e">>
\* " - " after the marker
T_Dashes == <<" ", "-", " ">>
\* "A - B - -" with its double quotes
T_QuotedDashes == <<"\"", "A", " ", "-", " ", "B", " ", "-", " ", "-", "\"">>
\* 'DJ Khaled - All I Do Is Win;'
T_Khaled == <<"'", "D", "J", " ", "K", "h", "a", "l", "e", "d", " ", "-",
    " ", "A", "l", "l", " ", "I", " ", "D", "o", " ", "I", "s", " ", "W",
    "i", "n", ";", "'">>

KhaledLine == StreamTitleEquals(T_Khaled)

TitleLines ==
    {TitleUpdate(T_A_B), TitleUpdate(T_A_None), TitleUpdate(T_None),
     TitleUpdate(T_Dashes), TitleUpdate(T_QuotedDashes), KhaledLine,
     AdMarker("true"), AdMarker("false")}

TitleRead ==
    \E line \in TitleLines :
        /\ Len(trace) < MaxTitleLines
        /\ LoopRead(line)
        /\ now' = now + 1
        /\ trace' = Append(trace, TraceEntry(line))

NextTitle == TitleRead

SpecTitle == InitAd /\ [][NextTitle]_vars

----------------------------------------------------------------------------
(* The context specification: the worker, connected, reads ad blocks whose  *)
(* adswizzContext value decodes or does not.                                *)

\* lines the worker reads in the context specification
MaxContextLines == 3

\* "Metadata update for adswizzContext: <val>"; ok: val is base64 of JSON text
ContextLine(val, ok) == [AdField("adswizzContext", val) EXCEPT !.ctx = ok]

ContextLines ==
    {AdMarker("true"), AdMarker("false"), AdField("adId", "ad1"),
     ContextLine("eyJhIjoxfQ==", TRUE), ContextLine("%%%", FALSE),
     TitleUpdate(T_A_B)}

ContextRead ==
    \E line \in ContextLines :
        /\ Len(trace) < MaxContextLines
        /\ LoopRead(line)
        /\ now' = now + 1
        /\ trace' = Append(trace, TraceEntry(line))

NextContext == ContextRead

SpecContext == InitAd /\ [][NextContext]_vars

----------------------------------------------------------------------------
(* The ad pair specification: the worker, connected, reads ad blocks that   *)
(* carry one of two adIds, and songs.                                       *)

\* lines the worker reads in the ad pair specification
MaxAdPairLines == 6

AdPairLines ==
    {AdMarker("true"), AdMarker("false"), AdField("adId", "ad1"),
     AdField("adId", "ad2"), TitleUpdate(T_C)}

AdPairRead ==
    \E line \in AdPairLines :
        /\ Len(trace) < MaxAdPairLines
        /\ LoopRead(line)
        /\ now' = now + 1
        /\ trace' = Append(trace, TraceEntry(line))

NextAdPair == AdPairRead

SpecAdPair == InitAd /\ [][NextAdPair]_vars

----------------------------------------------------------------------------
(* The stop specification: the three loops that test the stop flag, from    *)
(* the metadata worker's entry into its main loop, with its readline as a   *)
(* call that returns when the decoder writes a line or ends.  Fairness:     *)
(* every thread is scheduled, and a decoder running when the stop flag is   *)
(* set comes to an end.                                                     *)

\* lines the worker reads in its main loop in the stop specification
MaxStopLines == 1

StopLines == {TitleUpdate(T_A_B)}

\* the while test passes with the stop flag set
StopLoopTestIgnoresFlag ==
    /\ mw.pc = "loop"
    /\ procs.meta.state = "running"
    /\ mw' = [mw EXCEPT !.pc = "read"]
    /\ UNCHANGED <<self, file, aw, co, sh, procs, now, trace>>

\* the while test passes: the worker enters stdout.readline()
StopLoopTest ==
    /\ mw.pc = "loop"
    /\ ~ self.stop_flag
    /\ procs.meta.state = "running"
    /\ mw' = [mw EXCEPT !.pc = "read"]
    /\ UNCHANGED <<self, file, aw, co, sh, procs, now, trace>>

\* readline returns a line and the body of the loop handles it
StopLoopRead ==
    \E line \in StopLines :
        /\ Len(trace) < MaxStopLines
        /\ mw.pc = "read"
        /\ procs.meta.state = "running"
        /\ LET m == MainLoopBody(Machine, line)
           IN  /\ self' = m.self
               /\ file' = m.file
               /\ mw' = [mw EXCEPT !.in_ad = m.in_ad, !.ad_metadata = m.ad_metadata,
                                   !.line = line, !.pc = "loop"]
        /\ trace' = Append(trace, TraceEntry(line))
        /\ UNCHANGED <<aw, co, sh, procs, now>>

\* readline returns '' at the end of the decoder's output: continue
StopEof ==
    /\ mw.pc = "read"
    /\ procs.meta.state # "running"
    /\ mw' = [mw EXCEPT !.pc = "loop", !.line = NoLine]
    /\ UNCHANGED <<self, file, aw, co, sh, procs, now, trace>>

\* a decoder running with the stop flag set comes to an end
DecoderEnds == self.stop_flag /\ MetaExits

\* the metadata worker is in its main loop, the other threads at their start
InitStop ==
    /\ self = FreshRun.self
    /\ file = Connected(FreshRun.file)
    /\ mw = [InitMw EXCEPT !.pc = "loop", !.spawns = 1]
    /\ aw = InitAw
    /\ co = InitCo
    /\ sh = InitSh
    /\ procs = [InitProcs EXCEPT !.meta.state = "running", !.meta.gen = 1]
    /\ now = 0
    /\ trace = <<>>

NextStop ==
    \/ MetaExits
    \/ StopLoopTest
    \/ StopLoopRead
    \/ StopEof
    \/ LoopExit
    \/ AwSpawn
    \/ AwSpawnFails
    \/ AwRespawn
    \/ AwRespawnFails
    \/ AwExit
    \/ AudioExits
    \/ TermExit
    \/ CoExit
    \/ CoInterrupt
    \/ Shutdown

SpecStop ==
    /\ InitStop
    /\ [][NextStop]_vars
    /\ WF_vars(StopEof)
    /\ WF_vars(LoopExit)
    /\ WF_vars(AwSpawn \/ AwSpawnFails)
    /\ WF_vars(AwExit)
    /\ WF_vars(CoExit)
    /\ WF_vars(Shutdown)
    /\ WF_vars(DecoderEnds)

----------------------------------------------------------------------------
(* The decoder exit specification: the worker in its main loop, connected,  *)
(* with a decoder that may exit at any time, the coordination loop and the  *)
(* audio worker, whose failure to start its child is what sets the stop     *)
(* flag.  run() is the target of a background thread, so no interrupt is    *)
(* raised in its loop.                                                      *)

\* lines the worker reads in its main loop in the decoder exit specification
MaxExitLines == 2

ExitLines == {TitleUpdate(T_A_B),
              FormatLine(<< <<"mp3">>, <<"44100", "Hz">>, <<"stereo">>, <<"fltp">>,
                            <<"128", "kb/s">> >>)}

ExitLoopRead ==
    \E line \in ExitLines :
        /\ Len(trace) < MaxExitLines
        /\ mw.pc = "read"
        /\ procs.meta.state = "running"
        /\ LET m == MainLoopBody(Machine, line)
           IN  /\ self' = m.self
               /\ file' = m.file
               /\ mw' = [mw EXCEPT !.in_ad = m.in_ad, !.ad_metadata = m.ad_metadata,
                                   !.line = line, !.pc = "loop"]
        /\ trace' = Append(trace, TraceEntry(line))
        /\ UNCHANGED <<aw, co, sh, procs, now>>

NextExit ==
    \/ MetaExits
    \/ StopLoopTest
    \/ ExitLoopRead
    \/ StopEof
    \/ LoopExit
    \/ AwSpawn
    \/ AwSpawnFails
    \/ CoCheck
    \/ CoWait
    \/ CoDecide
    \/ SessionCoIo
    \/ CoMark
    \/ CoExit
    \/ Shutdown

SpecExit == InitStop /\ [][NextExit]_vars

----------------------------------------------------------------------------
(* The start specification: run() from its beginning, over the file a       *)
(* previous run left, then the metadata worker.                             *)

\* what run() can find at json_path
StartFiles == PreviousFiles \cup {TornFile}

InitStart ==
    /\ self = InitSelf
    /\ file \in StartFiles
    /\ mw = [InitMw EXCEPT !.pc = "new"]
    /\ aw = InitAw
    /\ co = [InitCo EXCEPT !.pc = "init"]
    /\ sh = InitSh
    /\ procs = InitProcs
    /\ now = 0
    /\ trace = <<>>

\* run() up to t1.start()
RunStart ==
    /\ co.pc = "init"
    /\ self' = RunInit(self, file).self
    /\ file' = RunInit(self, file).file
    /\ co' = [co EXCEPT !.pc = "idle"]
    /\ mw' = [mw EXCEPT !.pc = "start"]
    /\ UNCHANGED <<aw, sh, procs, now, trace>>

NextStart ==
    \/ RunStart
    \/ MetaSpawn
    \/ MetaSpawnFails
    \/ MetaExits
    \/ Probe
    \/ FaultDetect
    \/ DetectFail
    \/ FaultRead
    \/ LoopExit

SpecStart == InitStart /\ [][NextStart]_vars

----------------------------------------------------------------------------
(* The snapshot as text.  json.dump turns a document into JSON values:      *)
(* objects, arrays, strings, true/false and null; json.load turns them back *)
(* into dicts, lists, strs, bools and None.  Which JSON value a field       *)
(* becomes follows from the Python type the code gives that field.          *)

JString(s) == [j |-> "string", v |-> s]
JNull == [j |-> "null"]
JBool(b) == [j |-> "bool", v |-> b]
JArray(items) == [j |-> "array", v |-> items]
JObject(members) == [j |-> "object", v |-> members]

\* the audio metrics, None until measured
MetricKeys == {"integrated_lufs", "short_term_lufs", "true_peak_db", "loudness_range_lu"}

\* a field of an event: adw_ad is a bool, a metric is None, the rest are strs
JsonDumpField(k, v) ==
    IF k = "adw_ad" THEN JBool(v)
    ELSE IF k \in MetricKeys THEN JNull
    ELSE JString(v)

\* an event, or None
JsonDumpEvent(ev) ==
    IF ev = PyNone THEN JNull
    ELSE JObject([k \in DOMAIN ev |-> JsonDumpField(k, ev[k])])

\* the history with its first entry left out
JsonDumpHistoryDropsFirst(h) ==
    JArray([i \in 1..(Len(h) - 1) |-> JsonDumpEvent(h[i + 1])])

\* the history, a list of events
JsonDumpHistory(h) ==
    JArray([i \in 1..Len(h) |-> JsonDumpEvent(h[i])])

\* a dict of strs
JsonDumpStrings(d) == JObject([k \in DOMAIN d |-> JString(d[k])])

\* a section of the document
JsonDumpSection(name, d) ==
    JObject([k \in DOMAIN d |->
                IF name = "metadata" /\ k = "current" THEN JsonDumpEvent(d[k])
                ELSE IF name = "metadata" /\ k = "history" THEN JsonDumpHistory(d[k])
                ELSE IF name = "stream" /\ k = "audio_properties" THEN JsonDumpStrings(d[k])
                ELSE JString(d[k])])

\* json.dump(data, f, indent=2)
JsonDump(data) == JObject([name \in DOMAIN data |-> JsonDumpSection(name, data[name])])

\* json.load(f)
RECURSIVE JsonLoad(_)
JsonLoad(x) ==
    CASE x.j = "string" -> x.v
      [] x.j = "null" -> PyNone
      [] x.j = "bool" -> x.v
      [] x.j = "array" -> [i \in 1..Len(x.v) |-> JsonLoad(x.v[i])]
      [] x.j = "object" -> [k \in DOMAIN x.v |-> JsonLoad(x.v[k])]

\* write_json through the text it writes
WriteJsonText(f, data) == [state |-> "ok", doc |-> JsonLoad(JsonDump(data))]

----------------------------------------------------------------------------
(* The round-trip specification: the worker, connected, handles lines; the  *)
(* document each line leaves is written as text and read back.              *)

\* lines the worker reads in the round-trip specification
MaxRoundTripLines == 3

RoundTripLines ==
    {AdMarker("true"), AdMarker("false"), AdField("adId", "ad1"),
     TitleUpdate(T_A_B), TitleUpdate(T_C),
     FormatLine(<< <<"mp3">>, <<"44100", "Hz">>, <<"stereo">>, <<"fltp">>,
                   <<"128", "kb/s">> >>)}

RoundTripRead ==
    \E line \in RoundTripLines :
        /\ Len(trace) < MaxRoundTripLines
        /\ mw.pc = "loop"
        /\ ~ self.stop_flag
        /\ procs.meta.state = "running"
        /\ LET m == MainLoopBody(Machine, line)
           IN  /\ self' = m.self
               /\ file' = WriteJsonText(m.file, m.file.doc)
               /\ mw' = [mw EXCEPT !.in_ad = m.in_ad, !.ad_metadata = m.ad_metadata,
                                   !.line = line]
               /\ trace' = Append(trace, [written |-> m.file.doc,
                                          read |-> ReadJson(WriteJsonText(m.file, m.file.doc))])
        /\ now' = now + 1
        /\ UNCHANGED <<aw, co, sh, procs>>

NextRoundTrip == RoundTripRead

SpecRoundTrip == InitAd /\ [][NextRoundTrip]_vars

----------------------------------------------------------------------------
(* The engine of src/metadata_utils/stream_metadata.py, which keeps a flat  *)
(* document (title, artist, type, codec, bit_depth, sample_rate, history)   *)
(* and whose audio worker reads its child's output and falls back from the  *)
(* pulse backend to alsa.  Here codec, bit_depth and sample_rate are words. *)

UtilsInitSelf ==
    [codec |-> "unknown", bit_depth |-> "unknown", sample_rate |-> "unknown",
     last_artist |-> <<>>, last_title |-> <<>>, last_type |-> "",
     stop_flag |-> FALSE]

\* d.get(k) for comparing: <<d[k]>>, or <<>> for None
DictGet(d, k) == IF k \in DOMAIN d THEN <<d[k]>> ELSE <<>>

\* write_json_with_history between its read and its write: the document it
\* builds from the document read, the event and the object's fields
UtilsMergeHistory(existing_data, current_event, slf) ==
    LET existing_history == Get(existing_data, "history", <<>>)
        type == Get(current_event, "type", "song")
        data == Update([timestamp |-> current_event["timestamp"],
                        stream |-> StreamUrl, stream_id |-> PyNone,
                        codec |-> slf.codec, bit_depth |-> slf.bit_depth,
                        sample_rate |-> slf.sample_rate,
                        title |-> current_event["title"],
                        artist |-> current_event["artist"],
                        type |-> type],
                       Without(current_event, {"history", "timestamp", "stream",
                                               "stream_id", "title", "artist", "type"}))
        ad_keys == {"adId", "durationMilliseconds", "insertionType", "adswizzContext"}
        history_event == Update([timestamp |-> current_event["timestamp"], type |-> type,
                                 artist |-> current_event["artist"],
                                 title |-> current_event["title"]],
                                IF type = "ad"
                                THEN Without(current_event, DOMAIN current_event \ ad_keys)
                                ELSE EmptyDict)
        last_event == existing_history[Len(existing_history)]
        added == IF existing_history = <<>>
                 THEN <<history_event>>
                 ELSE IF /\ history_event["timestamp"] - last_event["timestamp"] >= 5
                         /\ \/ /\ type = "song"
                               /\ \/ DictGet(last_event, "artist") # DictGet(history_event, "artist")
                                  \/ DictGet(last_event, "title") # DictGet(history_event, "title")
                            \/ /\ type = "ad"
                               /\ DictGet(last_event, "adId") # DictGet(history_event, "adId")
                      THEN Append(existing_history, history_event)
                      ELSE existing_history
    IN  Put(data, "history", LastN(added, HistoryCap))

\* the three fields extract_stream_type_from_ffmpeg sets in the document
UtilsPatch(last_json, fields) ==
    Put(Put(Put(last_json, "codec", fields.codec), "bit_depth", fields.bit_depth),
        "sample_rate", fields.sample_rate)

\* the calls on the file, as their callers queue them
UtilsHistoryOp(current_event) == [op |-> "history", event |-> current_event,
                                  fields |-> EmptyDict]
UtilsPatchOp(slf) == [op |-> "patch", event |-> EmptyDict,
                      fields |-> [codec |-> slf.codec, bit_depth |-> slf.bit_depth,
                                  sample_rate |-> slf.sample_rate]]

\* the results of a thread's next step on the file f; slf is the object
UtilsIoNext(io, f, slf) ==
    LET head == Head(io.ops)
    IN  CASE io.pc = "idle" /\ head.op = "history" ->
                 {[io |-> [io EXCEPT !.pc = "loaded", !.seen = f.state,
                                     !.data = UtilsMergeHistory(OrEmpty(ReadJson(f)),
                                                                head.event, slf)],
                   file |-> f]}
          [] io.pc = "idle" /\ head.op = "patch" ->
                 IF ReadJson(f) \notin {PyNone, EmptyDict}
                 THEN {[io |-> [io EXCEPT !.pc = "loaded", !.seen = f.state,
                                         !.data = UtilsPatch(ReadJson(f), head.fields)],
                        file |-> f]}
                 ELSE {[io |-> [io EXCEPT !.ops = Tail(@), !.seen = f.state], file |-> f]}
          [] io.pc = "loaded" ->
                 {[io |-> [io EXCEPT !.pc = "opened"], file |-> EmptyFile]}
          [] io.pc = "opened" ->
                 {[io |-> [io EXCEPT !.pc = "idle", !.ops = Tail(@), !.data = NoDoc],
                   file |-> OkFile(io.data)]}

\* format_metadata on a song title: the object it leaves and the calls it
\* makes on the file; metadata['artist'] raises when the title has no artist
FormatMetadata(slf, title, t) ==
    LET title_info == ParseTitle(title)
        current_key == DedupKey(title_info.artist, title_info.title, "song")
        last_key == DedupKey(slf.last_artist, slf.last_title, slf.last_type)
        complete_metadata == [timestamp |-> t, stream |-> StreamUrl, stream_id |-> PyNone,
                              title |-> title_info.title, artist |-> title_info.artist,
                              codec |-> slf.codec, bit_depth |-> slf.bit_depth,
                              sample_rate |-> slf.sample_rate, type |-> "song"]
    IN  IF title_info.artist = <<>> \/ current_key = last_key
        THEN [self |-> slf, ops |-> <<>>]
        ELSE [self |-> [slf EXCEPT !.last_artist = title_info.artist,
                                   !.last_title = title_info.title,
                                   !.last_type = "song"],
              ops |-> <<UtilsHistoryOp(complete_metadata)>>]

\* extract_stream_type_from_ffmpeg on a line whose 'Audio: (\w+)' group is
\* line.codec ("" when there is none) and whose '(\d+) Hz' group is line.hz
ExtractStreamTypeFromFfmpeg(slf, line) ==
    LET s1 == IF line.codec \in {"aac", "mp3"} /\ slf.codec # line.codec
              THEN [slf EXCEPT !.codec = line.codec] ELSE slf
        o1 == IF s1 # slf THEN <<UtilsPatchOp(s1)>> ELSE <<>>
        s2 == IF line.codec # "" /\ s1.bit_depth # line.codec
              THEN [s1 EXCEPT !.bit_depth = line.codec] ELSE s1
        o2 == IF s2 # s1 THEN Append(o1, UtilsPatchOp(s2)) ELSE o1
        s3 == IF line.hz # "" /\ s2.sample_rate # line.hz
              THEN [s2 EXCEPT !.sample_rate = line.hz] ELSE s2
        o3 == IF s3 # s2 THEN Append(o2, UtilsPatchOp(s3)) ELSE o2
    IN  [self |-> s3, ops |-> o3]

\* for device in ['pulse', 'alsa']
Devices == <<"pulse", "alsa">>

\* continue: the next device, or the end of the for loop and of the function
NextDevice(a) ==
    IF a.device < Len(Devices)
    THEN [a EXCEPT !.pc = "try", !.device = @ + 1]
    ELSE [a EXCEPT !.pc = "done", !.exit = "unavailable"]

\* the audio worker of this engine: pc is "try" (about to Popen for
\* Devices[device]), "sleep", "play" (its while loop) or "done"; exit is the
\* way it returned; reads counts the lines it has read
UtilsInitAw == [pc |-> "try", device |-> 1, exit |-> "", reads |-> 0, io |-> NoIo]

\* the metadata worker of this engine, in its loop; events counts the titles
UtilsInitMw == [pc |-> "loop", events |-> 0, io |-> NoIo]

\* subprocess.Popen(cmd, ...) for the device
FbSpawn ==
    /\ aw.pc = "try"
    /\ procs' = [procs EXCEPT !.audio = [NoProc EXCEPT !.state = "running",
                                                       !.gen = aw.device]]
    /\ aw' = [aw EXCEPT !.pc = "sleep"]
    /\ UNCHANGED <<self, file, mw, co, sh, now, trace>>

\* Popen raises: except Exception, continue
FbSpawnFails ==
    /\ aw.pc = "try"
    /\ aw' = NextDevice(aw)
    /\ UNCHANGED <<self, file, mw, co, sh, procs, now, trace>>

\* the audio child exits
FbAudioExits ==
    \E out \in ExitOutputs, rc \in {0, 1} :
        /\ procs.audio.state = "running"
        /\ procs' = [procs EXCEPT !.audio = [@ EXCEPT !.state = "exited", !.out = out,
                                                       !.rc = rc]]
        /\ UNCHANGED <<self, file, mw, aw, co, sh, now, trace>>

\* after time.sleep(1): the tests on a process that has exited
FbProbe ==
    /\ aw.pc = "sleep"
    /\ aw' = IF procs.audio.state = "exited"
             THEN IF procs.audio.out \in NetworkErrors
                  THEN [aw EXCEPT !.pc = "done", !.exit = "network"]
                  ELSE IF procs.audio.rc # 0
                  THEN NextDevice(aw)
                  ELSE [aw EXCEPT !.pc = "play"]
             ELSE [aw EXCEPT !.pc = "play"]
    /\ UNCHANGED <<self, file, mw, co, sh, procs, now, trace>>

\* one iteration of the audio worker's while loop on a line with audio info
FbPlayRead(line) ==
    /\ aw.pc = "play"
    /\ ~ self.stop_flag
    /\ procs.audio.state = "running"
    /\ aw.io.ops = <<>>
    /\ LET r == ExtractStreamTypeFromFfmpeg(self, line)
       IN  /\ self' = r.self
           /\ aw' = [aw EXCEPT !.io.ops = r.ops, !.reads = @ + 1]
    /\ UNCHANGED <<file, mw, co, sh, procs, now, trace>>

\* the while loop ends: return
FbPlayEnd ==
    /\ aw.pc = "play"
    /\ aw.io.ops = <<>>
    /\ self.stop_flag \/ procs.audio.state # "running"
    /\ aw' = [aw EXCEPT !.pc = "done", !.exit = "played"]
    /\ UNCHANGED <<self, file, mw, co, sh, procs, now, trace>>

\* the metadata worker of this engine reads a song title: format_metadata
UtilsTitle(title) ==
    /\ mw.pc = "loop"
    /\ ~ self.stop_flag
    /\ mw.io.ops = <<>>
    /\ LET r == FormatMetadata(self, title, now)
       IN  /\ self' = r.self
           /\ mw' = [mw EXCEPT !.io.ops = r.ops, !.events = @ + 1]
    /\ UNCHANGED <<file, aw, co, sh, procs, now, trace>>

\* handle_signal, registered for SIGINT and SIGTERM: self.stop_flag.set()
UtilsStop ==
    /\ ~ self.stop_flag
    /\ self' = [self EXCEPT !.stop_flag = TRUE]
    /\ UNCHANGED <<file, mw, aw, co, sh, procs, now, trace>>

----------------------------------------------------------------------------
(* The specification of that engine: its audio worker from the start of    *)
(* its thread and its metadata worker in its loop, each making its calls   *)
(* on the file step by step, over the file a previous run left or none;    *)
(* trace keeps what each completed write left in the file, and by whom.    *)

\* inputs the two workers read in one run
MaxUtilsInputs == 3

UtilsAudioLines == {[codec |-> "aac", hz |-> "44100"], [codec |-> "mp3", hz |-> ""]}
UtilsTitles == {T_A_B}

\* the document a previous run left
UtilsPreviousDoc ==
    UtilsMergeHistory(EmptyDict,
                      [timestamp |-> -10, title |-> <<"C">>, artist |-> <<"D">>,
                       type |-> "song"],
                      UtilsInitSelf)

\* an entry of trace
UtilsHeld(by, f) ==
    [by |-> by, history |-> Get(f.doc, "history", <<>>),
     title |-> Get(f.doc, "title", PyNone), artist |-> Get(f.doc, "artist", PyNone),
     type |-> Get(f.doc, "type", PyNone)]

UtilsLogged(by, f) == IF f.state = "ok" THEN Append(trace, UtilsHeld(by, f)) ELSE trace

InitUtils ==
    /\ self = UtilsInitSelf
    /\ file \in {MissingFile, OkFile(UtilsPreviousDoc)}
    /\ mw = UtilsInitMw
    /\ aw = UtilsInitAw
    /\ co = InitCo
    /\ sh = InitSh
    /\ procs = InitProcs
    /\ now = 0
    /\ trace = <<>>

UtilsRead ==
    \E line \in UtilsAudioLines :
        /\ mw.events + aw.reads < MaxUtilsInputs
        /\ FbPlayRead(line)

UtilsEvent ==
    \E title \in UtilsTitles :
        /\ mw.events + aw.reads < MaxUtilsInputs
        /\ UtilsTitle(title)

\* the audio worker's next step on the file
UtilsAwIo ==
    /\ aw.io.ops # <<>>
    /\ \E r \in UtilsIoNext(aw.io, file, self) :
           /\ aw' = [aw EXCEPT !.io = r.io]
           /\ file' = r.file
           /\ trace' = IF aw.io.pc = "opened" THEN UtilsLogged("aw", r.file) ELSE trace
    /\ UNCHANGED <<self, mw, co, sh, procs, now>>

\* the metadata worker's next step on the file
UtilsMwIo ==
    /\ mw.io.ops # <<>>
    /\ \E r \in UtilsIoNext(mw.io, file, self) :
           /\ mw' = [mw EXCEPT !.io = r.io]
           /\ file' = r.file
           /\ trace' = IF mw.io.pc = "opened" THEN UtilsLogged("mw", r.file) ELSE trace
    /\ UNCHANGED <<self, aw, co, sh, procs, now>>

NextUtils ==
    \/ FbSpawn
    \/ FbSpawnFails
    \/ FbAudioExits
    \/ FbProbe
    \/ UtilsRead
    \/ FbPlayEnd
    \/ UtilsEvent
    \/ UtilsAwIo
    \/ UtilsMwIo
    \/ UtilsStop

SpecUtils == InitUtils /\ [][NextUtils]_vars

----------------------------------------------------------------------------
(* The ad handling of that engine's metadata worker, one line at a time,    *)
(* with no other thread on the file.                                        *)

\* write_json_with_history as one step
UtilsWriteJsonWithHistory(f, current_event, slf) ==
    OkFile(UtilsMergeHistory(OrEmpty(ReadJson(f)), current_event, slf))

\* decode_adswizz_context, by whether the value decodes
UtilsDecodeContext(ok) == IF ok THEN "decoded" ELSE "[decode error]"

\* display_ad_metadata: the event it builds and the file it leaves
UtilsDisplayAdMetadata(m) ==
    LET ad == m.ad_metadata
        ctx == Get(ad, "adswizzContext", "")
        event == [timestamp |-> m.t, stream |-> StreamUrl, stream_id |-> PyNone,
                  type |-> "ad", artist |-> <<>>, title |-> <<"[", "A", "d", "]">>,
                  adw_ad |-> Get(ad, "adw_ad", TRUE),
                  adId |-> Get(ad, "adId", ""),
                  durationMilliseconds |-> Get(ad, "durationMilliseconds", ""),
                  insertionType |-> Get(ad, "insertionType", ""),
                  adswizzContext |-> ctx,
                  adswizzContext_json |->
                      IF ctx # "" THEN UtilsDecodeContext(m.ctx_ok) ELSE "",
                  codec |-> m.self.codec, bit_depth |-> m.self.bit_depth,
                  sample_rate |-> m.self.sample_rate]
    IN  [m EXCEPT !.file = UtilsWriteJsonWithHistory(m.file, event, m.self)]

\* the adw_ad branch: 'true' writes the document of an ad with the history
\* found, 'false' shows what was collected
UtilsAdMarkerBranch(m, line) ==
    IF LowerWord(line.val) = "true"
    THEN [m EXCEPT !.in_ad = TRUE,
                   !.ad_metadata = [adw_ad |-> TRUE],
                   !.file = WriteJson(m.file,
                       [timestamp |-> m.t, stream |-> StreamUrl, stream_id |-> PyNone,
                        type |-> "ad", title |-> <<"[", "A", "d", "]">>, artist |-> <<>>,
                        codec |-> m.self.codec, bit_depth |-> m.self.bit_depth,
                        sample_rate |-> m.self.sample_rate,
                        history |-> Get(OrEmpty(ReadJson(m.file)), "history", <<>>)])]
    ELSE LET shown == IF m.in_ad /\ m.ad_metadata # EmptyDict
                      THEN UtilsDisplayAdMetadata(m) ELSE m
         IN  [shown EXCEPT !.ad_metadata = EmptyDict, !.in_ad = FALSE]

\* the loop over ad_fields inside an ad; last_ad_update holds time.time() of
\* the last display, which is at least 2 at the first test
UtilsAdFieldBranch(m, line) ==
    LET hit == {i \in 1..Len(ad_fields) : FieldPattern(ad_fields[i]) \in line.pats}
    IN  IF hit = {} THEN m
        ELSE LET field == ad_fields[CHOOSE i \in hit : \A j \in hit : i <= j]
                 set == [m EXCEPT !.ad_metadata = Put(@, field, line.val)]
                 dec == IF field = "adswizzContext"
                        THEN [set EXCEPT !.ctx_ok = line.ctx,
                                         !.ad_metadata = Put(@, "adswizzContext_json",
                                             IF line.ctx THEN "pretty" ELSE "[decode error]")]
                        ELSE set
             IN  IF dec.t - dec.last_ad_update >= 2
                 THEN [UtilsDisplayAdMetadata(dec) EXCEPT !.last_ad_update = dec.t]
                 ELSE dec

\* the song branch: format_metadata and its write
UtilsSongBranch(m, line) ==
    LET title == CleanTitle(ExtractTitle(line))
    IN  IF ExtractTitle(line) # <<>> /\ title # <<>> /\ Lower(title) \notin TitleSentinels
        THEN LET r == FormatMetadata(m.self, title, m.t)
             IN  IF r.ops = <<>> THEN [m EXCEPT !.self = r.self]
                 ELSE [m EXCEPT !.self = r.self,
                                !.file = UtilsWriteJsonWithHistory(m.file, r.ops[1].event,
                                                                   r.self)]
        ELSE m

\* the body of the while loop for one non-empty line
UtilsMainLoopBody(m, line) ==
    IF "metadata update for adw_ad:" \in line.pats
    THEN UtilsAdMarkerBranch(m, line)
    ELSE LET m2 == IF m.in_ad THEN UtilsAdFieldBranch(m, line) ELSE m
         IN  IF ~ m2.in_ad /\ line.pats \cap TitlePatterns # {}
             THEN UtilsSongBranch(m2, line)
             ELSE m2

\* lines the worker reads in this specification
MaxUtilsAdLines == 3

\* the worker in its loop: time.time() is far above 2 when last_ad_update = 0
\* is first tested
UtilsAdInitMw == [pc |-> "loop", in_ad |-> FALSE, ad_metadata |-> EmptyDict,
                  last_ad_update |-> -2, ctx_ok |-> FALSE, io |-> NoIo]

UtilsMachine == [self |-> self, file |-> file, in_ad |-> mw.in_ad,
                 ad_metadata |-> mw.ad_metadata, last_ad_update |-> mw.last_ad_update,
                 ctx_ok |-> mw.ctx_ok, t |-> now]

UtilsAdLines ==
    {AdMarker("true"), AdMarker("false"), AdField("adId", "ad1"),
     AdField("durationMilliseconds", "30000"), TitleUpdate(T_A_B), TitleUpdate(T_C)}

InitUtilsAd ==
    /\ self = UtilsInitSelf
    /\ file \in {MissingFile, OkFile(UtilsPreviousDoc)}
    /\ mw = UtilsAdInitMw
    /\ aw = UtilsInitAw
    /\ co = InitCo
    /\ sh = InitSh
    /\ procs = InitProcs
    /\ now = 0
    /\ trace = <<>>

UtilsLoopRead ==
    \E line \in UtilsAdLines :
        /\ Len(trace) < MaxUtilsAdLines
        /\ mw.pc = "loop"
        /\ ~ self.stop_flag
        /\ LET m == UtilsMainLoopBody(UtilsMachine, line)
           IN  /\ self' = m.self
               /\ file' = m.file
               /\ mw' = [mw EXCEPT !.in_ad = m.in_ad, !.ad_metadata = m.ad_metadata,
                                   !.last_ad_update = m.last_ad_update,
                                   !.ctx_ok = m.ctx_ok]
               /\ trace' = Append(trace, [line |-> line, in_ad |-> mw.in_ad,
                                          before |-> file, after |-> m.file])
        /\ now' = now + 1
        /\ UNCHANGED <<aw, co, sh, procs>>

NextUtilsAd == UtilsLoopRead

SpecUtilsAd == InitUtilsAd /\ [][NextUtilsAd]_vars

----------------------------------------------------------------------------
(* Stream._process_metadata of audio_stream_monitor/core/stream.py: its     *)
(* snapshot keeps the history newest first.  self holds current_song.       *)

\* history[:10]
StreamHistoryCap == 10

\* the document _process_metadata starts from when the file is missing or
\* does not parse
StreamNewDoc ==
    [server   |-> [connection_status |-> "connected"],
     stream   |-> [url |-> StreamUrl, mount |-> "mount",
                   audio_properties |-> [codec |-> "mp3", sample_rate |-> 44100,
                                         bitrate |-> 256, channels |-> "stereo"]],
     metadata |-> [current |-> PyNone, history |-> <<>>]]

\* the history with an append test that looks at the newest entry only
StreamHistoryAfterComparesFirst(history, history_metadata) ==
    IF history = <<>>
       \/ history[1]["title"] # history_metadata["title"]
       \/ history[1]["artist"] # history_metadata["artist"]
    THEN FirstN(<<history_metadata>> \o history, StreamHistoryCap)
    ELSE history

\* if not any(event['title'] == ... and event['artist'] == ... for event in
\* history): history.insert(0, history_metadata); history = history[:10]
StreamHistoryAfter(history, history_metadata) ==
    IF \A i \in 1..Len(history) :
           history[i]["title"] # history_metadata["title"]
             \/ history[i]["artist"] # history_metadata["artist"]
    THEN FirstN(<<history_metadata>> \o history, StreamHistoryCap)
    ELSE history

\* _process_metadata on file f at time t; a document without 'metadata'
\* raises KeyError, which the outer except logs
StreamProcessMetadata(f, metadata, t) ==
    LET json_data == IF f.state = "ok" THEN f.doc ELSE StreamNewDoc
        history_metadata == [timestamp |-> t,
                             type      |-> Get(metadata, "type", "song"),
                             title     |-> Get(metadata, "title", <<>>),
                             artist    |-> Get(metadata, "artist", <<>>)]
    IN  IF "metadata" \notin DOMAIN json_data THEN f
        ELSE LET current == Put(json_data["metadata"], "current", metadata)
                 history == Get(current, "history", <<>>)
             IN  OkFile(Put(json_data, "metadata",
                            Put(current, "history",
                                StreamHistoryAfter(history, history_metadata))))

\* events handed to _process_metadata in the stream specification
MaxStreamEvents == 3

\* the k-th of the songs of a session that plays a new song every second
StreamSong(k) == [title |-> <<"S", k>>, type |-> "song", timestamp |-> k]

\* the file after the first n of these songs, from no file
RECURSIVE StreamAfter(_)
StreamAfter(n) ==
    IF n = 0 THEN MissingFile
    ELSE StreamProcessMetadata(StreamAfter(n - 1), StreamSong(n), n)

StreamEvents(t) ==
    {StreamSong(1), StreamSong(StreamHistoryCap - 1), StreamSong(StreamHistoryCap),
     StreamSong(StreamHistoryCap + 1),
     [title |-> <<"S", 1>>, artist |-> <<"A">>, type |-> "song", timestamp |-> t],
     [title |-> <<"S", StreamHistoryCap>>, type |-> "ad", timestamp |-> t]}

InitStream ==
    \E n \in {0, StreamHistoryCap - 1} :
        /\ self = [current_song |-> PyNone]
        /\ file = StreamAfter(n)
        /\ now = n
        /\ mw = InitMw
        /\ aw = InitAw
        /\ co = InitCo
        /\ sh = InitSh
        /\ procs = InitProcs
        /\ trace = <<>>

\* _monitor_metadata hands an event to _process_metadata
StreamEvent ==
    \E metadata \in StreamEvents(now + 1) :
        /\ Len(trace) < MaxStreamEvents
        /\ now' = now + 1
        /\ self' = [self EXCEPT !.current_song = metadata]
        /\ file' = StreamProcessMetadata(file, metadata, now')
        /\ trace' = Append(trace, [event |-> metadata, before |-> file, after |-> file'])
        /\ UNCHANGED <<mw, aw, co, sh, procs>>

NextStream == StreamEvent

SpecStream == InitStream /\ [][NextStream]_vars

----------------------------------------------------------------------------
(* The stream manager (manage_streams.py).  self holds the globals          *)
(* running_processes and stop_flag and the position of main (pc); file is   *)
(* stream_configs.json; procs is the process table, one entry per pid the   *)
(* manager has started: "running", "zombie" (exited or killed and not yet   *)
(* waited for) or "gone".  A child that has ended stays in the table until  *)
(* its parent waits for it, and os.kill(pid, 0) succeeds on it; the only    *)
(* wait the manager makes is the one subprocess.Popen makes for the earlier *)
(* children when it starts a new one.  now counts the iterations of the     *)
(* loop and trace holds a record of the last one.                           *)

\* url.split('/')
Url(mount) == <<"http:", "", "host", mount>>

generate_stream_key(stream_config) ==
    LET url == Get(stream_config, "url", <<>>)
        stream_id == Get(stream_config, "stream_id", "")
    IN  IF stream_id # "" THEN stream_id
        ELSE IF url # <<>> THEN url[Len(url)] ELSE "unknown"

\* os.kill(pid, 0) does not raise
get_process_status(table, pid) == table[pid].state \in {"running", "zombie"}

\* {"streams": []} when the file is missing or does not parse
load_config(f) == IF f.state = "ok" THEN f.doc ELSE [streams |-> <<>>]

\* the entries whose process os.kill(pid, 0) still finds
cleanup_process_records(rp, table) ==
    Without(rp, {key \in DOMAIN rp : ~ get_process_status(table, rp[key].pid)})

\* {generate_stream_key(s): s for s in current_streams}: the last
\* configuration of a key, at the place of the first
CurrentKeys(current_streams) ==
    LET keys == {generate_stream_key(current_streams[i]) : i \in 1..Len(current_streams)}
        last(k) == CHOOSE i \in 1..Len(current_streams) :
                       /\ generate_stream_key(current_streams[i]) = k
                       /\ \A j \in (i + 1)..Len(current_streams) :
                              generate_stream_key(current_streams[j]) # k
    IN  [k \in keys |-> current_streams[last(k)]]

\* the keys of that dict in its order
KeyOrder(current_streams) ==
    LET ks == [i \in 1..Len(current_streams) |-> generate_stream_key(current_streams[i])]
        idx == [i \in 1..Len(current_streams) |-> i]
        firsts == SelectSeq(idx, LAMBDA i : \A j \in 1..(i - 1) : ks[j] # ks[i])
    IN  [n \in 1..Len(firsts) |-> ks[firsts[n]]]

\* identify_changes that restarts every configured stream
IdentifyChangesRestartsAll(current_streams, rp) ==
    LET current_keys == CurrentKeys(current_streams)
        order == KeyOrder(current_streams)
    IN  [start_streams |-> [n \in 1..Len(order) |-> current_keys[order[n]]],
         stop_keys |-> DOMAIN rp]

\* identify_changes that does not compare the configurations
IdentifyChangesIgnoresConfig(current_streams, rp) ==
    LET current_keys == CurrentKeys(current_streams)
        running_keys == DOMAIN rp
        order == KeyOrder(current_streams)
        starts == SelectSeq(order, LAMBDA key : key \notin running_keys)
    IN  [start_streams |-> [n \in 1..Len(starts) |-> current_keys[starts[n]]],
         stop_keys |-> running_keys \ DOMAIN current_keys]

identify_changes(current_streams, rp) ==
    LET current_keys == CurrentKeys(current_streams)
        running_keys == DOMAIN rp
        order == KeyOrder(current_streams)
        starts == SelectSeq(order, LAMBDA key :
                      \/ key \notin running_keys
                      \/ rp[key].config # current_keys[key])
        restart_keys == {k \in DOMAIN current_keys :
                            k \in running_keys /\ rp[k].config # current_keys[k]}
    IN  [start_streams |-> [n \in 1..Len(starts) |-> current_keys[starts[n]]],
         stop_keys |-> (running_keys \ DOMAIN current_keys) \cup restart_keys]

\* stop_stream: SIGTERM, then SIGKILL when os.kill(pid, 0) still succeeds,
\* which it does on a child nobody has waited for; kill_ok: the os.kill of
\* SIGKILL does not raise
stop_stream(table, process_info, kill_ok) ==
    IF ~ get_process_status(table, process_info.pid)
    THEN [table |-> table, ok |-> TRUE]
    ELSE IF kill_ok
    THEN [table |-> [table EXCEPT ![process_info.pid].state = "zombie"], ok |-> TRUE]
    ELSE [table |-> table, ok |-> FALSE]

\* start_stream: None when build_command raises for a missing url; Popen
\* waits for the earlier children that have ended, then starts the process
start_stream(table, stream_config) ==
    IF Get(stream_config, "url", <<>>) = <<>>
    THEN [table |-> table, process_info |-> PyNone]
    ELSE LET reaped == [pid \in 1..Len(table) |->
                           IF table[pid].state = "zombie"
                           THEN [table[pid] EXCEPT !.state = "gone"]
                           ELSE table[pid]]
         IN  [table |-> Append(reaped, [state |-> "running", config |-> stream_config]),
              process_info |-> [pid |-> Len(table) + 1, config |-> stream_config,
                                key |-> generate_stream_key(stream_config)]]

\* for key in stop_keys: if key in running_processes: if stop_stream(...): del
RECURSIVE StopStreams(_, _)
StopStreams(st, keys) ==
    IF keys = {} THEN st
    ELSE LET key == CHOOSE k \in keys : TRUE
             r == stop_stream(st.table, st.rp[key], st.kill_ok)
             next == IF key \in DOMAIN st.rp
                     THEN [st EXCEPT !.table = r.table,
                                     !.rp = IF r.ok THEN Without(@, {key}) ELSE @,
                                     !.stopped = @ \cup {st.rp[key].pid},
                                     !.ok = @ /\ r.ok]
                     ELSE st
         IN  StopStreams(next, keys \ {key})

\* for stream_config in start_streams: ...
RECURSIVE StartStreams(_, _)
StartStreams(st, start_streams) ==
    IF start_streams = <<>> THEN st
    ELSE LET stream_config == Head(start_streams)
             key == generate_stream_key(stream_config)
             s1 == IF key \in DOMAIN st.rp
                   THEN LET r == stop_stream(st.table, st.rp[key], st.kill_ok)
                        IN  [st EXCEPT !.table = r.table,
                                       !.stopped = @ \cup {st.rp[key].pid},
                                       !.ok = @ /\ r.ok]
                   ELSE st
             r2 == start_stream(s1.table, stream_config)
             s2 == [s1 EXCEPT !.table = r2.table,
                              !.rp = IF r2.process_info # PyNone
                                     THEN Put(@, key, r2.process_info) ELSE @,
                              !.started = @ \cup {key},
                              !.ok = @ /\ r2.process_info # PyNone]
         IN  StartStreams(s2, Tail(start_streams))

\* the body of main's while loop up to the wait
LoopBodyOf(rp, table, f, kill_ok) ==
    LET current_streams == Get(load_config(f), "streams", <<>>)
        cleaned == cleanup_process_records(rp, table)
        changes == identify_changes(current_streams, cleaned)
        st0 == [rp |-> cleaned, table |-> table, kill_ok |-> kill_ok,
                stopped |-> {}, started |-> {}, ok |-> TRUE]
        st1 == StopStreams(st0, changes.stop_keys)
    IN  StartStreams(st1, changes.start_streams)

\* iterations of main's loop in the manager specification
MaxManagerIterations == 3

ConfigA == [url |-> Url("m1"), flags |-> {}]
ConfigA2 == [url |-> Url("m1"), flags |-> {"silent"}]
ConfigB == [url |-> Url("m2"), stream_id |-> "b", flags |-> {}]
ConfigNoUrl == [stream_id |-> "x", flags |-> {}]

\* what stream_configs.json may hold
ConfigFiles ==
    {MissingFile} \cup
    {OkFile([streams |-> ss]) :
        ss \in {<<>>, <<ConfigA>>, <<ConfigA2>>, <<ConfigB>>, <<ConfigA, ConfigB>>,
                <<ConfigA, ConfigA2>>, <<ConfigA, ConfigNoUrl>>}}

InitManager ==
    /\ self = [running_processes |-> EmptyDict, stop_flag |-> FALSE, pc |-> "loop"]
    /\ file \in ConfigFiles
    /\ procs = <<>>
    /\ now = 0
    /\ trace = <<>>
    /\ mw = InitMw
    /\ aw = InitAw
    /\ co = InitCo
    /\ sh = InitSh

\* one iteration of the while loop of main
ManagerIteration ==
    \E kill_ok \in BOOLEAN :
        /\ self.pc = "loop"
        /\ ~ self.stop_flag
        /\ now < MaxManagerIterations
        /\ LET st == LoopBodyOf(self.running_processes, procs, file, kill_ok)
           IN  /\ self' = [self EXCEPT !.running_processes = st.rp]
               /\ procs' = st.table
               /\ trace' = <<[loaded |-> CurrentKeys(Get(load_config(file), "streams", <<>>)),
                              before |-> self.running_processes,
                              table |-> procs,
                              stopped |-> st.stopped, started |-> st.started,
                              ok |-> st.ok]>>
        /\ now' = now + 1
        /\ UNCHANGED <<file, mw, aw, co, sh>>

\* a managed process ends on its own
ChildExits ==
    \E pid \in 1..Len(procs) :
        /\ procs[pid].state = "running"
        /\ procs' = [procs EXCEPT ![pid].state = "zombie"]
        /\ UNCHANGED <<self, file, mw, aw, co, sh, now, trace>>

\* somebody edits stream_configs.json
ConfigEdit ==
    /\ self.pc = "loop"
    /\ file' \in ConfigFiles \ {file}
    /\ UNCHANGED <<self, mw, aw, co, sh, procs, now, trace>>

\* handle_signal: SIGINT or SIGTERM
ManagerSignal ==
    /\ self.pc = "loop"
    /\ ~ self.stop_flag
    /\ self' = [self EXCEPT !.stop_flag = TRUE]
    /\ UNCHANGED <<file, mw, aw, co, sh, procs, now, trace>>

\* the finally clause: stop_stream for every tracked process
ManagerFinally ==
    /\ self.pc = "loop"
    /\ self.stop_flag
    /\ self' = [self EXCEPT !.pc = "done"]
    /\ procs' = [pid \in 1..Len(procs) |->
                    IF \E key \in DOMAIN self.running_processes :
                           self.running_processes[key].pid = pid
                    THEN stop_stream(procs, [pid |-> pid], TRUE).table[pid]
                    ELSE procs[pid]]
    /\ UNCHANGED <<file, mw, aw, co, sh, now, trace>>

NextManager ==
    \/ ManagerIteration
    \/ ChildExits
    \/ ConfigEdit
    \/ ManagerSignal
    \/ ManagerFinally

SpecManager == InitManager /\ [][NextManager]_vars

----------------------------------------------------------------------------
(* The PID file of audio_stream_monitor (cli/stream_cli.py, utils/          *)
(* process.py): the instances started for one mount, each a process that    *)
(* runs main() step by step.  file is /tmp/stream_metadata_<mount>.pid:     *)
(* state "missing" or "ok", doc its text (the number it spells, EmptyText   *)
(* or NotANumber), ino the file the name stands for (a removed file that    *)
(* is created again is another file).  procs holds                          *)
(* the instances: pc is "check" (before os.path.exists), "open" (before     *)
(* open and read), "kill" (before os.kill), "remove_dead" (the except       *)
(* OSError clause), "remove_bad" (the except Exception clause), "write"     *)
(* (before write_pid_file), "writing" (the file is open and truncated),     *)
(* "monitor" (the stream has been started), "exited" (sys.exit(1)),         *)
(* "crashed" (an exception left main) or "gone" (stopped).                  *)

\* the instances, named by their pids
Instances == {1, 2}
\* the pid of a process of somebody else that is alive, and one that is not
OtherLive == 7
OtherDead == 9

\* the processes os.kill(pid, 0) finds
LivePids(ps) ==
    {OtherLive} \cup {i \in Instances : ps[i].pc \notin {"exited", "crashed", "gone"}}

\* texts int() raises on
EmptyText == 0
NotANumber == -1

NoPidFile == [state |-> "missing", doc |-> EmptyText, ino |-> 0]
PidFile(text) == [state |-> "ok", doc |-> text, ino |-> 0]

NewInstance(force) ==
    [pc |-> "check", force |-> force, pid_read |-> 0, found |-> "", wrote |-> FALSE,
     ino |-> 0]

InitPid ==
    /\ file \in {NoPidFile, PidFile(OtherLive), PidFile(OtherDead), PidFile(NotANumber)}
    /\ procs \in [Instances -> {NewInstance(FALSE), NewInstance(TRUE)}]
    /\ now = 0
    /\ self = [mount |-> "m1"]
    /\ trace = <<>>
    /\ mw = InitMw
    /\ aw = InitAw
    /\ co = InitCo
    /\ sh = InitSh

\* an instance's step that leaves the file alone
PidStep(i, pc) == procs' = [procs EXCEPT ![i].pc = pc]

\* if not args.force and is_instance_running(mount): os.path.exists
is_instance_running_exists(i) ==
    /\ procs[i].pc = "check"
    /\ procs' = [procs EXCEPT ![i].pc = IF procs[i].force \/ file.state = "missing"
                                        THEN "write" ELSE "open"]
    /\ UNCHANGED <<self, file, mw, aw, co, sh, now, trace>>

\* with open(pid_file, 'r') as f: pid = int(f.read().strip())
is_instance_running_read(i) ==
    /\ procs[i].pc = "open"
    /\ procs' = IF file.state = "ok" /\ file.doc \notin {EmptyText, NotANumber}
                THEN [procs EXCEPT ![i].pc = "kill", ![i].pid_read = file.doc]
                ELSE [procs EXCEPT ![i].pc = "remove_bad", ![i].found = "bad"]
    /\ UNCHANGED <<self, file, mw, aw, co, sh, now, trace>>

\* os.kill(pid, 0): return True, and main calls sys.exit(1)
is_instance_running_kill(i) ==
    /\ procs[i].pc = "kill"
    /\ procs' = IF procs[i].pid_read \in LivePids(procs)
                THEN [procs EXCEPT ![i].pc = "exited", ![i].found = "live"]
                ELSE [procs EXCEPT ![i].pc = "remove_dead", ![i].found = "dead"]
    /\ UNCHANGED <<self, file, mw, aw, co, sh, now, trace>>

\* except OSError: os.remove(pid_file); a remove that raises goes to the
\* except Exception clause
is_instance_running_remove_dead(i) ==
    /\ procs[i].pc = "remove_dead"
    /\ IF file.state = "ok"
       THEN file' = NoPidFile /\ PidStep(i, "write")
       ELSE file' = file /\ PidStep(i, "remove_bad")
    /\ UNCHANGED <<self, mw, aw, co, sh, now, trace>>

\* except Exception: os.remove(pid_file); a remove that raises leaves main
is_instance_running_remove_bad(i) ==
    /\ procs[i].pc = "remove_bad"
    /\ IF file.state = "ok"
       THEN file' = NoPidFile /\ PidStep(i, "write")
       ELSE file' = file /\ PidStep(i, "crashed")
    /\ UNCHANGED <<self, mw, aw, co, sh, now, trace>>

\* write_pid_file: open(pid_file, 'w') creates the file or truncates it
write_pid_file_open(i) ==
    /\ procs[i].pc = "write"
    /\ now' = IF file.state = "ok" THEN now ELSE now + 1
    /\ file' = [state |-> "ok", doc |-> EmptyText,
                ino |-> IF file.state = "ok" THEN file.ino ELSE now']
    /\ procs' = [procs EXCEPT ![i].pc = "writing", ![i].ino = file'.ino]
    /\ UNCHANGED <<self, mw, aw, co, sh, trace>>

\* f.write(str(os.getpid())) and close, into the file that was opened;
\* atexit.register and stream.start() follow
write_pid_file_write(i) ==
    /\ procs[i].pc = "writing"
    /\ file' = IF file.state = "ok" /\ file.ino = procs[i].ino
               THEN [file EXCEPT !.doc = i] ELSE file
    /\ procs' = [procs EXCEPT ![i].pc = "monitor", ![i].wrote = TRUE]
    /\ UNCHANGED <<self, mw, aw, co, sh, now, trace>>

\* the instance is stopped; cleanup_pid_file runs at exit
cleanup_pid_file(i) ==
    /\ procs[i].pc = "monitor"
    /\ file' = NoPidFile
    /\ PidStep(i, "gone")
    /\ UNCHANGED <<self, mw, aw, co, sh, now, trace>>

NextPid ==
    \E i \in Instances :
        \/ is_instance_running_exists(i)
        \/ is_instance_running_read(i)
        \/ is_instance_running_kill(i)
        \/ is_instance_running_remove_dead(i)
        \/ is_instance_running_remove_bad(i)
        \/ write_pid_file_open(i)
        \/ write_pid_file_write(i)
        \/ cleanup_pid_file(i)

SpecPid == InitPid /\ [][NextPid]_vars

----------------------------------------------------------------------------
(* Reading the trace *)

\* the ad fields other than the marker
IsAdFieldLine(line) ==
    \E i \in 2..Len(ad_fields) : line = AdField(ad_fields[i], line.val)
FieldOf(line) ==
    ad_fields[CHOOSE i \in 2..Len(ad_fields) : line = AdField(ad_fields[i], line.val)]

\* the assembler's state after the k-th line of the trace
InAdAfter(k) == IF k < Len(trace) THEN trace[k + 1].in_ad ELSE mw.in_ad
AccumulatorAfter(k) == IF k < Len(trace) THEN trace[k + 1].ad_metadata ELSE mw.ad_metadata

\* the positions before i at which an event was handed to process_metadata
EmittedBefore(i) == {j \in 1..(i - 1) : trace[j].emitted # <<>>}
LastEmittedBefore(i) == CHOOSE j \in EmittedBefore(i) : \A k \in EmittedBefore(i) : k <= j

\* the (artist, title, type) key of an event
EventKey(e) == <<e["artist"], e["title"], e["type"]>>

MetadataOf(f) == f.doc["metadata"]

\* C1: an event whose (artist, title, type) key equals the key of the event
\* processed immediately before it changes neither metadata.current nor
\* metadata.history, and the first event of the session is written: it
\* becomes metadata.current, with the time of its processing.
C1_DedupSuppression ==
    \A i \in 1..Len(trace) :
        trace[i].emitted # <<>> =>
            LET e == trace[i].emitted[1]
            IN  IF EmittedBefore(i) = {}
                THEN LET cur == MetadataOf(trace[i].after)["current"]
                     IN  /\ cur # PyNone
                         /\ EventKey(cur) = EventKey(e)
                         /\ cur["timestamp"] = trace[i].t
                ELSE EventKey(trace[LastEmittedBefore(i)].emitted[1]) = EventKey(e)
                     => MetadataOf(trace[i].after) = MetadataOf(trace[i].before)

\* C1 witness: a song processed twice in a row, after the first event
C1_Witness ==
    \E i \in 1..Len(trace) :
        /\ trace[i].emitted # <<>>
        /\ EmittedBefore(i) # {}
        /\ trace[i].emitted[1]["type"] = "song"
        /\ EventKey(trace[LastEmittedBefore(i)].emitted[1]) = EventKey(trace[i].emitted[1])
        /\ trace[i].t > trace[LastEmittedBefore(i)].t

\* the lines i..i+3 are [adw_ad=true, field X, field Y, adw_ad=false], X and Y
\* two different fields, read from Idle
AdBlockAt(i) ==
    /\ i + 3 <= Len(trace)
    /\ ~ trace[i].in_ad
    /\ trace[i].line = AdMarker("true")
    /\ IsAdFieldLine(trace[i + 1].line)
    /\ IsAdFieldLine(trace[i + 2].line)
    /\ FieldOf(trace[i + 1].line) # FieldOf(trace[i + 2].line)
    /\ trace[i + 3].line = AdMarker("false")

\* C4: from Idle, [adw_ad=true, field X, field Y, adw_ad=false] hands exactly
\* one event to process_metadata, at the adw_ad=false line; it is an ad and
\* holds X and Y; afterwards the assembler is Idle with an empty accumulator.
\* Unless the event processed before it was an ad too, it becomes
\* metadata.current with X and Y.
C4_AdBlockEmitsOnce ==
    \A i \in 1..Len(trace) :
        AdBlockAt(i) =>
            LET x == trace[i + 1].line
                y == trace[i + 2].line
                out == trace[i + 3].emitted
            IN  /\ \A k \in i..(i + 2) : trace[k].emitted = <<>>
                /\ Len(out) = 1
                /\ out[1]["type"] = "ad"
                /\ Get(out[1], FieldOf(x), "") = x.val
                /\ Get(out[1], FieldOf(y), "") = y.val
                /\ ~ InAdAfter(i + 3)
                /\ AccumulatorAfter(i + 3) = EmptyDict
                /\ (EmittedBefore(i) = {}
                      \/ trace[LastEmittedBefore(i)].emitted[1]["type"] # "ad")
                    => LET cur == MetadataOf(trace[i + 3].after)["current"]
                       IN  /\ cur # PyNone
                           /\ cur["type"] = "ad"
                           /\ Get(cur, FieldOf(x), "") = x.val
                           /\ Get(cur, FieldOf(y), "") = y.val

\* C4 witness: a complete ad block has been read after a song
C4_Witness ==
    \E i \in 2..Len(trace) :
        /\ AdBlockAt(i)
        /\ trace[i - 1].emitted # <<>>
        /\ trace[i + 3].emitted # <<>>

\* the lines i..i+4 are [adw_ad=true, field X, adw_ad=true, field Z, adw_ad=false],
\* X and Z two different fields, read from Idle
RestartedAdBlockAt(i) ==
    /\ i + 4 <= Len(trace)
    /\ ~ trace[i].in_ad
    /\ trace[i].line = AdMarker("true")
    /\ IsAdFieldLine(trace[i + 1].line)
    /\ trace[i + 2].line = AdMarker("true")
    /\ IsAdFieldLine(trace[i + 3].line)
    /\ FieldOf(trace[i + 1].line) # FieldOf(trace[i + 3].line)
    /\ trace[i + 4].line = AdMarker("false")

\* C5: [adw_ad=true, field X, adw_ad=true, field Z, adw_ad=false] hands exactly
\* one event to process_metadata, and it holds Z but not X.
C5_RestartDiscardsFirstBlock ==
    \A i \in 1..Len(trace) :
        RestartedAdBlockAt(i) =>
            LET out == trace[i + 4].emitted
            IN  /\ \A k \in i..(i + 3) : trace[k].emitted = <<>>
                /\ Len(out) = 1
                /\ Get(out[1], FieldOf(trace[i + 3].line), "") = trace[i + 3].line.val
                /\ FieldOf(trace[i + 1].line) \notin DOMAIN out[1]

HistoryOf(f) == f.doc["metadata"]["history"]

\* the i-th line of the trace made write_json_with_history append an entry:
\* its event was not a repeat of the event before it, and differs in title
\* or artist from the last entry of the history
AppendedAt(i) ==
    /\ trace[i].emitted # <<>>
    /\ \/ EmittedBefore(i) = {}
       \/ EventKey(trace[LastEmittedBefore(i)].emitted[1]) # EventKey(trace[i].emitted[1])
    /\ LET h == HistoryOf(trace[i].before)
           e == trace[i].emitted[1]
       IN  h = <<>> \/ h[Len(h)]["title"] # e["title"] \/ h[Len(h)]["artist"] # e["artist"]

\* C2: metadata.history never holds more than 10 entries, and appending an
\* entry to a history of 10 drops exactly its oldest entry, keeps the other
\* nine in order and puts the new entry last.
C2_HistoryCapped ==
    /\ Len(HistoryOf(file)) <= HistoryCap
    /\ \A i \in 1..Len(trace) :
           LET h == HistoryOf(trace[i].before)
               h2 == HistoryOf(trace[i].after)
           IN  /\ Len(h2) <= HistoryCap
               /\ (Len(h) = HistoryCap /\ AppendedAt(i)) =>
                      LET e == trace[i].emitted[1]
                      IN  h2 = Tail(h) \o <<[timestamp |-> trace[i].t, type |-> e["type"],
                                             title |-> e["title"], artist |-> e["artist"]]>>

\* C2 witness: an event was appended to a history of 10
C2_Witness ==
    \E i \in 1..Len(trace) :
        /\ Len(HistoryOf(trace[i].before)) = HistoryCap
        /\ AppendedAt(i)
        /\ HistoryOf(trace[i].before)[1]["timestamp"] > - HistoryCap

AudioFields(slf) == <<slf.codec, slf.sample_rate, slf.channels, slf.bitrate>>

\* C3: once audio_info_locked is set, no line changes codec, sample_rate,
\* channels or bitrate.
C3_LockedNeverChanges ==
    [][self.audio_info_locked => AudioFields(self') = AudioFields(self)]_vars

\* C6: with the worker and the coordination loop writing the snapshot
\* concurrently, the history of the file only changes by an entry being
\* appended at its end, the oldest being evicted when the history is at
\* its cap; so an entry one writer appended is still there after the other
\* writer's write
C6_HistoryAppendOnly ==
    \A i \in 1..(Len(trace) - 1) :
        LET h == trace[i].history
            h2 == trace[i + 1].history
        IN  \/ h2 = h
            \/ h2 # <<>> /\ h2 = Append(h, h2[Len(h2)])
            \/ h2 # <<>> /\ Len(h) = HistoryCap /\ h2 = Append(Tail(h), h2[Len(h2)])

\* C7: a thread that reads the snapshot while another writes it finds the
\* complete previous or the complete new document, never an empty or a
\* partly written file
C7_ReadersSeeCompleteDocuments ==
    /\ mw.io.seen \notin {"empty", "torn"}
    /\ co.io.seen \notin {"empty", "torn"}


\* C8: handle_signal sets the stop flag before it joins any worker, joins
\* each live worker with a timeout, then sends terminate to every handle of
\* its list whatever the joins returned on, and kills a child that is still
\* running after the wait; so it returns even when a worker never ends and a
\* child ignores terminate
C8_ShutdownReturns ==
    /\ [](sh.pc # "idle" => self.stop_flag)
    /\ [](sh.pc \in {"terminate", "wait", "done"} => Len(sh.joins) = Len(Threads))
    /\ [](sh.pc = "done" =>
            /\ sh.sent = {ProcList[k] : k \in {j \in 1..Len(ProcList) : sh.list[j] # 0}}
            /\ \A k \in 1..Len(ProcList) : ~ Running(k))
    /\ (sh.pc # "idle") ~> (sh.pc = "done")

\* C8 witness: handle_signal has returned after a join that timed out on the
\* metadata worker, which is still alive, and after killing a child
C8_Witness ==
    /\ sh.pc = "done"
    /\ sh.joins[1] = "timeout"
    /\ IsAlive("mw")
    /\ sh.killed # {}


\* no metadata event has been emitted in the session: none was handed to the
\* normalizer, none was written by the coordination loop, the file has no
\* current event and its history is empty as run() left it
NoEventInSession ==
    /\ ~ self.has_seen_first_metadata
    /\ self.last_metadata = EmptyDict
    /\ FileCurrent(file) = PyNone
    /\ FileHistory(file) = <<>>

\* C9: the persisted status stays "connecting" through the probe and the
\* window; the first line with evidence read within the 10 attempts of the
\* window takes it to "connected" and the worker to its main loop; every
\* other read uses up an attempt; after 10 attempts without evidence the
\* status becomes "failed" and the worker returns, having started one
\* subprocess only, with no metadata event in the session
C9_ConnectionDetection ==
    /\ [](mw.pc \in {"sleep", "detect"} => FileStatus(file) = "connecting")
    /\ [][(mw.pc = "detect" /\ mw.attempts < DetectAttempts /\ mw' # mw) =>
             IF DetectEvidence(mw'.line)
             THEN mw'.pc = "loop" /\ FileStatus(file') = "connected"
             ELSE /\ mw'.pc = "detect" /\ mw'.attempts = mw.attempts + 1
                  /\ FileStatus(file') = "connecting"]_vars
    /\ [][(mw.pc = "detect" /\ mw.attempts = DetectAttempts /\ mw' # mw) =>
             mw'.pc = "done" /\ mw'.exit = "window" /\ FileStatus(file') = "failed"]_vars
    /\ [](mw.exit = "window" =>
            /\ mw.pc = "done" /\ FileStatus(file) = "failed"
            /\ mw.spawns = 1 /\ procs.meta.gen = 1
            /\ NoEventInSession)

\* C9 witness: the window ended without evidence after blank and log lines,
\* with the decoder still running
C9_Witness ==
    /\ mw.exit = "window"
    /\ mw.line = LogLine
    /\ procs.meta.state = "running"

\* C9 second witness: evidence arrived on the last attempt of the window
C9_WitnessConnected ==
    /\ mw.pc = "loop"
    /\ mw.attempts = DetectAttempts - 1
    /\ FileStatus(file) = "connected"

\* C10: when the probe finds the metadata subprocess exited with a
\* network error in its output, the status becomes "failed" and the worker
\* returns; it has started one subprocess and starts no other
C10_EarlyFailureProbe ==
    /\ [][(mw.pc = "sleep" /\ procs.meta.state = "exited"
            /\ procs.meta.out \in NetworkErrors /\ mw' # mw) =>
             mw'.pc = "done" /\ mw'.exit = "probe" /\ FileStatus(file') = "failed"]_vars
    /\ [](mw.exit = "probe" =>
            /\ mw.pc = "done" /\ FileStatus(file) = "failed"
            /\ mw.spawns = 1 /\ procs.meta.gen = 1)

\* C10 witness: the worker has returned from the probe on
\* "Failed to resolve hostname" from a subprocess that exited with code 0
C10_Witness ==
    /\ mw.exit = "probe"
    /\ procs.meta.out = "Failed to resolve hostname"
    /\ procs.meta.rc = 0
    /\ FileStatus(file) = "failed"


\* C11: within a run the persisted connection status never goes back to
\* "connecting", and once it is "failed" no later write changes it
C11_StatusMonotonic ==
    \A i \in 1..(Len(trace) - 1) :
        /\ trace[i + 1].status = "connecting" => trace[i].status = "connecting"
        /\ trace[i].status = "failed" => trace[i + 1].status = "failed"


\* C12: in its loop the audio worker starts the audio subprocess again
\* whenever it finds it exited with the stop flag clear, as often as that
\* happens; its loop ends only with the stop flag set, and it ends once the
\* stop flag is set
C12_SupervisionLoop ==
    /\ [](aw.pc = "done" => self.stop_flag)
    /\ [][aw'.spawns > aw.spawns /\ aw.pc = "monitor" =>
             /\ procs.audio.state \in {"exited", "killed"} /\ ~ self.stop_flag
             /\ procs'.audio.state = "running"]_vars
    /\ \A n \in 1..(MaxSpawns - 1) :
           (aw.pc = "monitor" /\ aw.spawns = n /\ procs.audio.state = "exited")
               ~> (aw.spawns > n \/ self.stop_flag)
    /\ (self.stop_flag /\ aw.pc = "monitor") ~> (aw.pc = "done")

\* C12 witness: the audio subprocess has been started again as often as the
\* model allows and the loop has then ended on the stop flag
C12_Witness ==
    /\ aw.spawns = MaxSpawns
    /\ aw.pc = "done"
    /\ sh.pc # "idle"

\* C13: when the audio worker ends because the audio subprocess could not
\* be started or restarted, the stop flag stays clear
C13_AudioFailureLeavesStopFlag ==
    [][(aw.pc # "done" /\ aw'.pc = "done" /\ ~ self.stop_flag) => ~ self'.stop_flag]_vars


\* C14: in the other engine the pulse backend is tried first; whenever the
\* pulse process has exited when the probe ends, the alsa backend is tried
\* next; when both have failed the worker returns, and none of its steps
\* sets the stop flag
C14_BackendFallback ==
    /\ [][(aw.pc = "sleep" /\ aw.device = 1 /\ procs.audio.state = "exited"
            /\ aw' # aw) =>
             aw'.pc = "try" /\ aw'.device = 2]_vars
    /\ [][aw' # aw => self'.stop_flag = self.stop_flag]_vars
    /\ [](procs.audio.gen = 2 => aw.device = 2)

\* C18: in the other engine a write of the audio worker leaves the history
\* and the current title, artist and type as the file held them before it
C18_AudioWritesKeepMetadata ==
    \A i \in 2..Len(trace) :
        trace[i].by = "aw" =>
            /\ trace[i].history = trace[i - 1].history
            /\ trace[i].title = trace[i - 1].title
            /\ trace[i].artist = trace[i - 1].artist
            /\ trace[i].type = trace[i - 1].type


\* C15: a step of the metadata worker that finds the snapshot missing or
\* not valid JSON, the status writes of the initial window included, does
\* not set the stop flag and does not end the worker through its except
\* clause
C15_SnapshotFailureContained ==
    [][(file.state # "ok" /\ mw' # mw /\ ~ self.stop_flag) =>
         ~ self'.stop_flag /\ mw'.exit # "error"]_vars

\* C16: the minimal event of type 'unknown' becomes metadata.current only
\* where the file held no current event: it never replaces an event the
\* metadata worker has written
C16_MinimalNeverReplacesEvent ==
    \A i \in 1..(Len(trace) - 1) :
        (/\ Get(trace[i + 1].current, "type", "") = "unknown"
         /\ trace[i + 1].current # trace[i].current)
            => trace[i].current = PyNone

\* C17: every complete snapshot holds the sections server (with
\* connection_status), stream (with url) and metadata (with current and
\* history)
C17_SectionsPresent ==
    file.state = "ok" =>
        /\ {"server", "stream", "metadata"} \subseteq DOMAIN file.doc
        /\ "connection_status" \in DOMAIN file.doc["server"]
        /\ "url" \in DOMAIN file.doc["stream"]
        /\ {"current", "history"} \subseteq DOMAIN file.doc["metadata"]


IsIcyLine(line) == line.pats \cap {"icy-audio-info", "icy-br"} # {}

\* C19: a step that reads an icy-audio-info or icy-br line leaves
\* sample_rate, bitrate and channels as they were wherever they held a
\* value other than "unknown"
C19_IcyOnlyFillsUnknown ==
    [][(mw' # mw /\ IsIcyLine(mw'.line)) =>
         /\ self.sample_rate # Unknown => self'.sample_rate = self.sample_rate
         /\ self.bitrate # Unknown => self'.bitrate = self.bitrate
         /\ self.channels # Unknown => self'.channels = self.channels]_vars

\* icy-br gave the bitrate first; the icy-audio-info line read last, which
\* carries ice-bitrate=128, filled the sample rate and kept that bitrate
C19_Witness ==
    /\ "icy-audio-info" \in mw.line.pats
    /\ self.bitrate = <<"64", "Kbps">>
    /\ self.sample_rate = <<"44100">>
    /\ ~ self.audio_info_locked


\* the calls of update_connection_status one iteration made: each handler of
\* the main loop that acts on a line makes one
StatusCalls(ops) == {k \in 1..Len(ops) : ops[k].op = "status"}

\* C20: at most one handler of the main loop acts on a line, whatever
\* patterns the line carries
C20_OneHandlerPerLine ==
    \A i \in 1..Len(trace) : Cardinality(StatusCalls(trace[i].ops)) <= 1


\* the title a title line gives to process_metadata, and what parse_title
\* makes of it
RawTitleOf(line) == CleanTitle(ExtractTitle(line))
NormalizedTitleOf(line) == ParseTitle(RawTitleOf(line)).title

\* C21: a title line read outside an ad whose normalized title is empty,
\* "none" or "null" in any letter case leaves the file's current event, its
\* history and the dedup key as they were
C21_SentinelTitleIgnored ==
    [][(/\ trace' # trace
        /\ mw'.line.pats \cap TitlePatterns # {}
        /\ Lower(NormalizedTitleOf(mw'.line)) \in TitleSentinels)
         => /\ FileCurrent(file') = FileCurrent(file)
            /\ FileHistory(file') = FileHistory(file)
            /\ <<self'.last_artist, self'.last_title, self'.last_type>>
                   = <<self.last_artist, self.last_title, self.last_type>>]_vars

\* what C22 says parse_title returns for s
ParseTitleAsStated(s) ==
    LET rest == Strip(RStripSet(s, {"-", " "}))
        i == Find(rest, Separator)
    IN  IF i > 0
        THEN [artist |-> Strip(SubSeq(rest, 1, i - 1)),
              title  |-> Strip(SubSeq(rest, i + 3, Len(rest)))]
        ELSE [artist |-> <<>>, title |-> rest]

\* C22: for every title given to process_metadata, the artist and title of
\* the event are the text before and after the first " - " of the title
\* with its trailing dashes and whitespace removed
C22_ParseTitleSplits ==
    \A i \in 1..Len(trace) :
        \A k \in 1..Len(trace[i].emitted) :
            LET ev == trace[i].emitted[k]
            IN  ev["type"] = "song" =>
                    /\ ev["artist"] = ParseTitleAsStated(RawTitleOf(trace[i].line)).artist
                    /\ ev["title"] = ParseTitleAsStated(RawTitleOf(trace[i].line)).title

\* DJ Khaled / All I Do Is Win
KhaledArtist == <<"D", "J", " ", "K", "h", "a", "l", "e", "d">>
KhaledTitle == <<"A", "l", "l", " ", "I", " ", "D", "o", " ", "I", "s", " ",
    "W", "i", "n">>

\* C23: the line StreamTitle='DJ Khaled - All I Do Is Win;' read outside an
\* ad gives process_metadata a song with artist "DJ Khaled" and title
\* "All I Do Is Win"
C23_KhaledLine ==
    \A i \in 1..Len(trace) :
        (trace[i].line = KhaledLine /\ ~ trace[i].in_ad) =>
            /\ Len(trace[i].emitted) = 1
            /\ trace[i].emitted[1]["type"] = "song"
            /\ trace[i].emitted[1]["artist"] = KhaledArtist
            /\ trace[i].emitted[1]["title"] = KhaledTitle


\* an adswizzContext line whose value does not decode, read inside an ad
BadContextAt(i) ==
    /\ trace[i].in_ad
    /\ FieldPattern("adswizzContext") \in trace[i].line.pats
    /\ ~ trace[i].line.ctx

\* the adw_ad line that follows line i with no other adw_ad line between
ClosesAfter(i, j) ==
    /\ i < j
    /\ trace[j].line = AdMarker("false")
    /\ \A k \in (i + 1)..(j - 1) : "metadata update for adw_ad:" \notin trace[k].line.pats

\* C24: an adswizzContext value that does not decode puts "[decode error]"
\* in adswizzContext_json, leaves the worker in its loop and in the ad with
\* the stop flag clear, and the block is given to process_metadata at the
\* closing adw_ad line
C24_DecodeErrorRecorded ==
    /\ mw.pc = "loop" /\ ~ self.stop_flag
    /\ \A i \in 1..Len(trace) :
          BadContextAt(i) =>
              /\ InAdAfter(i)
              /\ Get(AccumulatorAfter(i), "adswizzContext_json", "") = "[decode error]"
              /\ trace[i].emitted = <<>>
              /\ \A j \in 1..Len(trace) :
                    ClosesAfter(i, j) =>
                        /\ Len(trace[j].emitted) = 1
                        /\ trace[j].emitted[1]["type"] = "ad"
                        /\ "adswizzContext_json" \in DOMAIN trace[j].emitted[1]

\* an ad opened, its context failed to decode, the ad closed and written
C24_Witness ==
    /\ Len(trace) = 3
    /\ BadContextAt(2)
    /\ ClosesAfter(2, 3)
    /\ FileCurrent(file) # PyNone
    /\ Get(FileCurrent(file), "adswizzContext_json", "") = "[decode error]"


\* C25: in the engine of metadata_utils, the adw_ad=true line and the lines
\* read inside the ad before the adw_ad=false line leave the snapshot as it
\* was: no ad is written as the current event or as a history entry
C25_NoAdDataBeforeClose ==
    \A i \in 1..Len(trace) :
        (/\ trace[i].line # AdMarker("false")
         /\ trace[i].in_ad \/ trace[i].line = AdMarker("true"))
            => trace[i].after = trace[i].before


\* C26: once the stop flag is set the metadata worker, the audio worker and
\* the coordination loop each come to their end, and a loop whose test finds
\* the flag set is left at that test
C26_WorkersExitOnStop ==
    /\ self.stop_flag ~> (mw.pc = "done")
    /\ self.stop_flag ~> (aw.pc = "done")
    /\ self.stop_flag ~> (co.pc \in {"finally", "done"})
    /\ [][(self.stop_flag /\ mw.pc = "loop" /\ mw' # mw) => mw'.pc = "done"]_vars
    /\ [][(self.stop_flag /\ aw.pc = "monitor" /\ aw' # aw) => aw'.pc = "done"]_vars
    /\ [][(self.stop_flag /\ co.pc = "idle" /\ co' # co) => co'.pc = "finally"]_vars

\* the flag was set while the metadata worker was inside readline, and all
\* three have ended
C26_Witness ==
    /\ self.stop_flag
    /\ mw.pc = "done" /\ mw.exit = "loop" /\ mw.line = NoLine /\ Len(trace) = 1
    /\ aw.pc = "done" /\ aw.spawns >= 1
    /\ co.pc \in {"finally", "done"}


\* C27: the snapshot run() writes at its start has the status
\* "connecting", no current event, and the history of the file found, entry
\* for entry (none when there was no file or no readable one)
C27_InitialSnapshot ==
    [][co.pc = "init" /\ co'.pc # "init" =>
         /\ file'.state = "ok"
         /\ FileStatus(file') = "connecting"
         /\ "current" \in DOMAIN file'.doc["metadata"]
         /\ FileCurrent(file') = PyNone
         /\ FileHistory(file') = FileHistory(file)]_vars

\* run() has written its snapshot over a file with a full history
C27_Witness ==
    /\ co.pc = "idle"
    /\ mw.pc = "start"
    /\ FileStatus(file) = "connecting"
    /\ FileHistory(file) = PriorHistory(HistoryCap)


IsFormatLine(line) == {"Stream #0:0", "Audio:"} \subseteq line.pats /\ line.fmt # <<>>

\* C29: a format line whose codec is one of the raw codecs changes none of
\* codec, sample_rate, channels and bitrate and leaves the lock as it was;
\* a format line of five parts with another codec, read while the lock is
\* not set, sets it
C29_RawCodecIgnored ==
    /\ [][(mw' # mw /\ IsFormatLine(mw'.line) /\ mw'.line.fmt[1] \in RawCodecs) =>
             /\ AudioFields(self') = AudioFields(self)
             /\ self'.audio_info_locked = self.audio_info_locked
             /\ self'.audio_info_ready = self.audio_info_ready]_vars
    /\ [][(/\ mw' # mw /\ IsFormatLine(mw'.line) /\ mw'.line.fmt[1] \notin RawCodecs
            /\ Len(mw'.line.fmt) >= 5 /\ ~ self.audio_info_locked) =>
             self'.audio_info_locked /\ self'.codec = mw'.line.fmt[1]]_vars

\* the pcm_s16le line was read last and the fields are as __init__ set them
C29_Witness ==
    /\ IsFormatLine(mw.line)
    /\ mw.line.fmt[1] = <<"pcm_s16le">>
    /\ AudioFields(self) = <<Unknown, Unknown, Unknown, Unknown>>
    /\ ~ self.audio_info_locked


\* C30: a step of the initial detection window leaves the current event,
\* the history and the stream section of the file, the ad assembler, the
\* dedup key and the audio properties with their flags as they were
C30_WindowOnlySetsStatus ==
    [][(mw.pc = "detect" /\ mw' # mw) =>
         /\ FileCurrent(file') = FileCurrent(file)
         /\ FileHistory(file') = FileHistory(file)
         /\ Get(file'.doc, "stream", EmptyDict) = Get(file.doc, "stream", EmptyDict)
         /\ mw'.in_ad = mw.in_ad /\ mw'.ad_metadata = mw.ad_metadata
         /\ self'.last_metadata = self.last_metadata
         /\ <<self'.last_artist, self'.last_title, self'.last_type>>
                = <<self.last_artist, self.last_title, self.last_type>>
         /\ AudioFields(self') = AudioFields(self)
         /\ self'.audio_properties = self.audio_properties
         /\ self'.audio_info_ready = self.audio_info_ready
         /\ self'.audio_info_locked = self.audio_info_locked]_vars

\* a format line was the evidence: the status is "connected", the worker is
\* in its main loop and no audio property is set
C30_Witness ==
    /\ mw.pc = "loop"
    /\ trace = <<>>
    /\ IsFormatLine(mw.line)
    /\ FileStatus(file) = "connected"
    /\ AudioFields(self) = <<Unknown, Unknown, Unknown, Unknown>>
    /\ ~ self.audio_info_locked


\* a line of the song branch's patterns that is not an adw_ad line
IsTitleLine(line) ==
    /\ line.pats \cap TitlePatterns # {}
    /\ "metadata update for adw_ad:" \notin line.pats

\* C31: a title line read while the assembler is in an ad leaves
\* metadata.current, metadata.history and the dedup key as they were
C31_NoSongWhileInAd ==
    [][(mw.in_ad /\ mw' # mw /\ IsTitleLine(mw'.line)) =>
         /\ FileCurrent(file') = FileCurrent(file)
         /\ FileHistory(file') = FileHistory(file)
         /\ self'.last_metadata = self.last_metadata
         /\ <<self'.last_artist, self'.last_title, self'.last_type>>
                = <<self.last_artist, self.last_title, self.last_type>>
         /\ mw'.in_ad]_vars

\* a title line has just been read inside an ad that follows a song
C31_Witness ==
    /\ Len(trace) >= 3
    /\ trace[Len(trace)].in_ad
    /\ trace[Len(trace)].line = TitleUpdate(T_A_B)
    /\ trace[Len(trace)].emitted = <<>>
    /\ FileCurrent(file) # PyNone
    /\ FileCurrent(file)["title"] = T_C


\* the i-th line of the trace completed an ad block
AdCompletedAt(i) ==
    /\ trace[i].emitted # <<>>
    /\ Get(trace[i].emitted[1], "adw_ad", FALSE) = TRUE

\* C32: a completed ad block is processed with artist "" and title "" as an
\* ad; when the event processed before it was a completed ad block too, its
\* completion writes nothing to the snapshot
C32_SecondAdSuppressed ==
    \A i \in 1..Len(trace) :
        AdCompletedAt(i) =>
            /\ trace[i].line = AdMarker("false")
            /\ EventKey(trace[i].emitted[1]) = << <<>>, <<>>, "ad" >>
            /\ (EmittedBefore(i) # {} /\ AdCompletedAt(LastEmittedBefore(i)))
                  => /\ trace[i].after = trace[i].before
                     /\ trace[i].ops = <<>>

\* two ad blocks have completed with no song between them, the first with
\* adId ad1 and written, the second with adId ad2
C32_Witness ==
    \E i \in 1..Len(trace) :
        /\ AdCompletedAt(i)
        /\ EmittedBefore(i) # {}
        /\ AdCompletedAt(LastEmittedBefore(i))
        /\ Get(trace[LastEmittedBefore(i)].emitted[1], "adId", "") = "ad1"
        /\ Get(trace[i].emitted[1], "adId", "") = "ad2"
        /\ FileCurrent(file) # PyNone
        /\ Get(FileCurrent(file), "adId", "") = "ad1"


\* no two neighbours of history h have both the same title and the same artist
NoAdjacentRepeat(h) ==
    \A i \in 1..(Len(h) - 1) :
        h[i]["title"] # h[i + 1]["title"] \/ h[i]["artist"] # h[i + 1]["artist"]

\* the calls of write_json_with_history among ops
HistoryCalls(ops) == {k \in 1..Len(ops) : ops[k].op = "history"}

\* C33: metadata.history never holds two neighbours with the same title and
\* the same artist, and a call of write_json_with_history by the worker
\* with an event whose title and artist are those of the last entry makes
\* the event current and leaves the history as it was, whatever its type
C33_NoAdjacentRepeat ==
    /\ [](file.state = "ok" => NoAdjacentRepeat(FileHistory(file)))
    /\ [][(/\ Len(trace') > Len(trace)
           /\ file.state = "ok" /\ FileHistory(file) # <<>>
           /\ HistoryCalls(trace'[Len(trace')].ops) # {}) =>
            LET ops == trace'[Len(trace')].ops
                e == ops[CHOOSE k \in HistoryCalls(ops) : TRUE].metadata
                last == FileHistory(file)[Len(FileHistory(file))]
            IN  (last["title"] = e["title"] /\ last["artist"] = e["artist"])
                  => /\ FileHistory(file') = FileHistory(file)
                     /\ FileCurrent(file') = Without(e, AudioKeys)]_vars

\* an ad has followed the minimal event: it is current, and the history
\* holds the minimal event alone
C33_Witness ==
    /\ file.state = "ok"
    /\ Len(FileHistory(file)) = 1
    /\ FileHistory(file)[1]["type"] = "unknown"
    /\ FileCurrent(file) # PyNone
    /\ FileCurrent(file)["type"] = "ad"
    /\ trace # <<>>
    /\ trace[Len(trace)].emitted # <<>>


\* the coordination loop has been left
CoLeft == co.pc \in {"finally", "done"}

C35_NoChildAfterShutdown ==
    sh.pc = "done" => \A name \in {"audio", "meta"} : procs[name].state # "running"


\* the (title, artist) of a history entry or of an event
PairOf(ev) == <<Get(ev, "title", <<>>), Get(ev, "artist", <<>>)>>

\* the history of a file, empty when there is no file
StreamHistoryOf(f) == IF f.state = "ok" THEN FileHistory(f) ELSE <<>>

\* C36: the history of Stream._process_metadata never holds two entries
\* with the same (title, artist), is ordered newest first and has at most
\* 10 entries, and an event whose (title, artist) is in the history becomes
\* current and leaves the history as it was
C36_StreamHistory ==
    LET h == StreamHistoryOf(file)
    IN  /\ \A i, j \in 1..Len(h) : i < j => PairOf(h[i]) # PairOf(h[j])
        /\ \A i, j \in 1..Len(h) : i < j => h[i]["timestamp"] >= h[j]["timestamp"]
        /\ Len(h) <= 10
        /\ \A k \in 1..Len(trace) :
               LET before == StreamHistoryOf(trace[k].before)
               IN  (\E i \in 1..Len(before) : PairOf(before[i]) = PairOf(trace[k].event))
                     => /\ FileHistory(trace[k].after) = before
                        /\ FileCurrent(trace[k].after) = trace[k].event

\* the history is full, its oldest entry has been dropped for a new song,
\* and an event whose pair is deeper in the history than its first entry
\* has become current
C36_Witness ==
    /\ Len(StreamHistoryOf(file)) = 10
    /\ \E k \in 1..Len(trace) :
           /\ Len(StreamHistoryOf(trace[k].before)) = 10
           /\ FileHistory(trace[k].after) # StreamHistoryOf(trace[k].before)
    /\ \E k \in 1..Len(trace) :
           LET before == StreamHistoryOf(trace[k].before)
           IN  /\ \E i \in 2..Len(before) : PairOf(before[i]) = PairOf(trace[k].event)
               /\ PairOf(before[1]) # PairOf(trace[k].event)
               /\ FileCurrent(trace[k].after) = trace[k].event
               /\ FileCurrent(trace[k].before) # trace[k].event


\* the record of the manager's last iteration
LastIteration == trace[1]

\* C37: after an iteration in which every stop_stream and start_stream call
\* succeeded, running_processes has the keys of the loaded configuration and
\* each tracked process was started with the configuration of its key; a
\* key that was not tracked has been started, a tracked key that is not
\* configured has been stopped, a key whose configuration changed both
C37_ManagerReconciles ==
    (self.pc = "loop" /\ trace # <<>> /\ LastIteration.ok) =>
        LET it == LastIteration
            rp == self.running_processes
            tracked == cleanup_process_records(it.before, it.table)
        IN  /\ DOMAIN rp = DOMAIN it.loaded
            /\ \A key \in DOMAIN rp :
                   /\ rp[key].config = it.loaded[key]
                   /\ procs[rp[key].pid].config = it.loaded[key]
            /\ \A key \in DOMAIN it.loaded \ DOMAIN tracked : key \in it.started
            /\ \A key \in DOMAIN tracked \ DOMAIN it.loaded :
                   tracked[key].pid \in it.stopped
            /\ \A key \in DOMAIN tracked \cap DOMAIN it.loaded :
                   tracked[key].config # it.loaded[key] =>
                       /\ tracked[key].pid \in it.stopped
                       /\ key \in it.started
                       /\ rp[key].pid # tracked[key].pid

\* an iteration has stopped a stream taken out of the configuration,
\* restarted one whose configuration changed, and all its calls succeeded
C37_Witness ==
    /\ self.pc = "loop" /\ trace # <<>> /\ LastIteration.ok
    /\ LET it == LastIteration
       IN  /\ "b" \in DOMAIN it.before /\ "b" \notin DOMAIN self.running_processes
           /\ it.before["b"].pid \in it.stopped
           /\ "m1" \in DOMAIN it.before /\ "m1" \in it.started
           /\ it.before["m1"].config = ConfigA
           /\ self.running_processes["m1"].config = ConfigA2

\* C38: a configured stream whose process had exited when an iteration
\* began is started again in that iteration, when its calls succeed
C38_ExitedStreamRestarted ==
    (self.pc = "loop" /\ trace # <<>> /\ LastIteration.ok) =>
        LET it == LastIteration
        IN  \A key \in DOMAIN it.before \cap DOMAIN it.loaded :
                it.table[it.before[key].pid].state # "running" =>
                    /\ key \in it.started
                    /\ key \in DOMAIN self.running_processes
                    /\ self.running_processes[key].pid # it.before[key].pid

\* C39: an iteration leaves alone a stream whose configuration is unchanged
\* and whose process is alive: it is neither stopped nor started and its
\* entry of running_processes stays as it was
C39_ManagerFrame ==
    (self.pc = "loop" /\ trace # <<>>) =>
        LET it == LastIteration
        IN  \A key \in DOMAIN it.before \cap DOMAIN it.loaded :
                (/\ it.before[key].config = it.loaded[key]
                 /\ it.table[it.before[key].pid].state = "running") =>
                    /\ it.before[key].pid \notin it.stopped
                    /\ key \notin it.started
                    /\ key \in DOMAIN self.running_processes
                    /\ self.running_processes[key] = it.before[key]

\* an iteration that started another stream has left a running stream with
\* an unchanged configuration alone
C39_Witness ==
    /\ self.pc = "loop" /\ trace # <<>>
    /\ LET it == LastIteration
       IN  /\ "m1" \in DOMAIN it.before /\ "m1" \in DOMAIN it.loaded
           /\ it.before["m1"].config = it.loaded["m1"]
           /\ it.table[it.before["m1"].pid].state = "running"
           /\ "b" \in it.started
           /\ self.running_processes["m1"] = it.before["m1"]
           /\ procs[it.before["m1"].pid].state = "running"


\* C40: when no instance was given --force, at most one instance of the
\* mount is monitoring at a time; an instance that exits at the check found
\* the PID file of a live process and wrote nothing; an instance that found
\* a stale PID file (a dead process or text that is no number) does not
\* exit at the check
C40_SingleInstance ==
    (\A i \in Instances : ~ procs[i].force) =>
        /\ Cardinality({i \in Instances : procs[i].pc = "monitor"}) <= 1
        /\ \A i \in Instances :
               procs[i].pc = "exited" => (procs[i].found = "live" /\ ~ procs[i].wrote)
        /\ \A i \in Instances :
               procs[i].found \in {"dead", "bad"} => procs[i].pc # "exited"


====

